---- MODULE Spec2Model ----
(***************************************************************************)
(* Model of the prompto migration scripts and Read API.                    *)
(*                                                                         *)
(*   Spec     the batched writer batchWriteToFirestore in its three        *)
(*            variants: "v1" migrate-to-firestore.js:113 (no modes),       *)
(*            "v2" migrate-to-firestore-v2 (part_000:124) and              *)
(*            "v3" migrate-to-firestore.js:550 (incremental).              *)
(*   SpecFix  fixPromptDetails of the repair script                        *)
(*            (migrate-to-firestore.js:1165).                              *)
(*   SpecApi  the Express pipeline of the Read API (part_002, part_003).   *)
(*   SpecPage the pagination of /getCategoryList (queryWithPagination of   *)
(*            part_002, paginate of part_003).                             *)
(*   SpecConfig  the configuration cache getConfig of part_003, called by  *)
(*            concurrent requests.                                         *)
(*   SpecRun  main of the v2 and v3 migration scripts: categories, the     *)
(*            category mapping, prompts, prompt details.                   *)
(*   SpecSequence  SpecRun with one name for all categories and files.     *)
(*   SpecDetails  the two writers of promptDetails: a v2 run over detail   *)
(*            files and fixPromptDetails.                                  *)
(*   SpecExtract  extractArrayFromJSON of the v2 and v3 scripts.           *)
(*   SpecFiles  the discovery and classification of the files in Storage   *)
(*            (listAndCategorizeFiles, categorizeFiles).                   *)
(*   SpecCleanup  cleanup-firestore.js: deleteCollection for the three     *)
(*            collections, with weak fairness of the script's steps.       *)
(*   SpecMode  determineMigrationMode of the v3 script.                    *)
(*   SpecRerun  two runs of a migration script in update mode over the     *)
(*            same files, one after the other.                             *)
(*                                                                         *)
(* A Firestore collection is a function from document keys to documents;   *)
(* a document is a function from field names to values.  Document keys are *)
(* positive integers; 0 stands for a missing (falsy) _id.                  *)
(***************************************************************************)
EXTENDS Integers, Sequences, FiniteSets, TLC

VARIABLES
    \* ---- batchWriteToFirestore ----
    variant,        \* which of the three writers runs
    mode,           \* "fresh" | "update" | "force" ("none": v1 has no mode)
    data,           \* the records passed in, <<[docId, data], ...>>
    coll,           \* the target collection: key -> document
    before,         \* history: the collection when the call started
    existingIds,    \* let existingIds
    i,              \* loop index of the chunk loop (0, 500, 1000, ...)
    successCount,
    errorCount,
    skippedCount,
    commits,        \* history: every batch.commit() issued, in order
    pc,             \* position of the running script
    \* ---- fixPromptDetails ----
    snapshot,       \* snapshot.docs: keys of promptDetails in read order
    pos,            \* number of snapshot docs the for-loop has visited
    batch,          \* operations queued in `batch`
    oldDocIds,
    fixedCount,
    fixSkipped,     \* skippedCount of fixPromptDetails
    \* ---- Read API ----
    api,            \* which index.js runs: "firestore" | "config" | "static"
    req,            \* the request being served
    res,            \* the response sent (status 0: none yet)
    handler,        \* the route handler entered for this request, or "none"
    backendCalls,   \* database / storage calls issued for this request
    logged,         \* the error sendErrorResponse passed to console.error
    \* ---- pagination of /getCategoryList ----
    query,          \* req.query: the raw page and limit parameters
    items,          \* the ordered prompts of the category
    paged,          \* what queryWithPagination / paginate returned
    \* ---- getConfig ----
    configCache,    \* let configCache (NoConfig: null)
    configLastFetched,  \* let configLastFetched (0: null)
    clock,          \* Date.now()
    blob,           \* what data/config.json holds in storage
    calls,          \* history: every getConfig invocation, in call order
    \* ---- main of the migration scripts ----
    script,         \* which script runs: "v2" | "v3"
    runMode,        \* MIGRATION_MODE (v2), determineMigrationMode() (v3)
    storage,        \* the JSON files of the data/ folder, by kind
    db,             \* the collections categories, prompts, promptDetails
    categoriesResult,   \* const categoriesResult: successCount and data
    categoryMapping,    \* let categoryMapping (NoMapping: null)
    at,             \* position of main
    fileIx,         \* v3: number of files the per-file loop has finished
    todo,           \* chunks the running batchWriteToFirestore has yet to commit
    inFlight,       \* batch.commit() calls issued and not yet settled
    trace,          \* history: commits started and settled, mapping built
    \* ---- extractArrayFromJSON ----
    extractor,      \* which script's extractArrayFromJSON runs: "v2" | "v3"
    rawData,        \* the parsed JSON value passed in
    extracted,      \* what the call returned, or the error it threw
    \* ---- categorizeFiles / listAndCategorizeFiles ----
    fileNames,      \* the names storage.getFiles returned, prefix included
    categorized,    \* const categorized: the three groups, in push order
    \* ---- cleanup-firestore.js ----
    firestore,      \* the three collections: their document keys, in key order
    atStart,        \* history: firestore when the script started
    target,         \* which deleteCollection call main is in (1..3)
    snapshotDocs,   \* snapshot.docs of the last read
    totalDeleted,   \* let totalDeleted
    results,        \* const results of main
    interfered,     \* history: another client wrote during the cleanup
    \* ---- determineMigrationMode (v3) ----
    argv,           \* args[0] of the command line
    reads,          \* history: which of the three existence reads succeeded
    migrationMode,  \* what determineMigrationMode returned
    \* ---- a second run of the migration script ----
    runNo,          \* 0 during the first run, 1 during the second
    dbAfterFirst,   \* history: the database when the first run ended
    firstTrace      \* history: the trace of the first run

writerVars == <<variant, mode, data, coll, before, existingIds, i,
                successCount, errorCount, skippedCount, commits>>
fixVars == <<snapshot, pos, batch, oldDocIds, fixedCount, fixSkipped>>
apiVars == <<api, req, res, handler, backendCalls, logged>>
pageVars == <<query, items, paged>>
configVars == <<configCache, configLastFetched, clock, blob, calls>>
runVars == <<script, runMode, storage, db, categoriesResult, categoryMapping,
             at, fileIx, todo, inFlight, trace>>
extractVars == <<extractor, rawData, extracted>>
fileVars == <<fileNames, categorized>>
cleanVars == <<firestore, atStart, target, snapshotDocs, totalDeleted, results, interfered>>
modeVars == <<argv, reads, migrationMode>>
rerunVars == <<runNo, dbAfterFirst, firstTrace>>
toolVars == <<fileVars, cleanVars, modeVars, rerunVars>>
auxVars == <<pageVars, configVars, runVars, extractVars, toolVars>>
vars == <<writerVars, fixVars, apiVars, auxVars, pc>>

----------------------------------------------------------------------------
(* Bounds of the model *)

MaxTail == 2          \* longest list of freely chosen records
MaxPadChunks == 1     \* filler records in front of them fill up to this many chunks
PadBase == 1000       \* keys of filler records are PadBase + index
AutoBase == 5000      \* auto-generated keys are AutoBase + index

(* Program constants *)

batchSize == 500
MaxBatchOps == 500    \* "500 writes per batch max"

NoId == 0
Keys == {11, 12}
OldDoc == [a |-> 0, b |-> 0]
NewDocs == {[a |-> 1], [b |-> 2]}

EmptyFcn == [x \in {} |-> 0]
Min(x, y) == IF x < y THEN x ELSE y
Max(x, y) == IF x > y THEN x ELSE y

----------------------------------------------------------------------------
(* Firestore write semantics *)

\* batch.set(docRef, docData): full replace
SetDoc(c, k, d) == (k :> d) @@ c

\* batch.set(docRef, docData, {merge: true}): fields of d replace, others stay
SetMerge(c, k, d) ==
    IF k \in DOMAIN c THEN (k :> (d @@ c[k])) @@ c ELSE (k :> d) @@ c

----------------------------------------------------------------------------
(* batchWriteToFirestore *)

useIdField == TRUE

\* the item a caller of v1 / v3 passes: the raw JSON object, _id included
Item(r) == IF r.docId = NoId THEN r.data ELSE ("_id" :> r.docId) @@ r.data

\* const docId = item.docId (v2); useIdField && item._id ? item._id : undefined
DocIdOf(j) ==
    IF variant = "v2" THEN data[j].docId
    ELSE IF useIdField /\ data[j].docId # NoId THEN data[j].docId ELSE NoId

\* const docData = item.data (v2); const { _id, ...dataWithoutId } = item (v3);
\* const { ...dataWithoutId } = item (v1: the _id stays in the document)
DocDataOf(j) ==
    IF variant = "v1" THEN Item(data[j]) ELSE data[j].data

\* db.collection(name).doc(docId), or .doc() with an auto-generated key
DocRefOf(j) == IF DocIdOf(j) # NoId THEN DocIdOf(j) ELSE AutoBase + j

\* getExistingDocIds: the keys of the collection, or the empty Set on error
GetExistingDocIds(ok) == IF ok THEN DOMAIN coll ELSE {}

\* if (mode === "update" && docId && existingIds.has(docId)) { skippedCount++; return; }
IsSkipped(j) ==
    mode = "update" /\ DocIdOf(j) # NoId /\ DocIdOf(j) \in existingIds

\* a writer that would pass {merge: true} in every mode
WriteOneMerging(c, j) ==
    IF IsSkipped(j) THEN c ELSE SetMerge(c, DocRefOf(j), DocDataOf(j))

\* a writer that would never pass {merge: true}
WriteOneReplacing(c, j) ==
    IF IsSkipped(j) THEN c ELSE SetDoc(c, DocRefOf(j), DocDataOf(j))

\* the batch.set of one record
WriteOne(c, j) ==
    IF IsSkipped(j) THEN c
    ELSE IF mode = "force" THEN SetMerge(c, DocRefOf(j), DocDataOf(j))
    ELSE SetDoc(c, DocRefOf(j), DocDataOf(j))

\* the writes of records lo..hi applied in list order: first those of
\* lo..mid, then those of mid+1..hi to the collection they leave
RECURSIVE ApplyWrites(_, _, _)
ApplyWrites(c, lo, hi) ==
    IF lo > hi THEN c
    ELSE IF lo = hi THEN WriteOne(c, lo)
    ELSE LET mid == (lo + hi) \div 2
         IN  CHOOSE r \in {ApplyWrites(l, mid + 1, hi) :
                              l \in {ApplyWrites(c, lo, mid)}} : TRUE

\* const chunk = data.slice(i, i + batchSize): records ChunkLo..ChunkHi
ChunkLo == i + 1
ChunkHi == Min(i + batchSize, Len(data))
ChunkLen == ChunkHi - ChunkLo + 1

\* the records of the chunk that reach batch.set; batchCount is their number
Queued == {j \in ChunkLo..ChunkHi : ~IsSkipped(j)}

\* successCount after the commit of the chunk returned (ok) or threw
SuccessAfter(ok, batchCount) ==
    CASE variant = "v1" ->
            IF ok THEN successCount + ChunkLen
            ELSE (successCount + ChunkLen) - ChunkLen
      [] variant = "v2" ->
            IF ok THEN successCount + batchCount ELSE successCount
      [] variant = "v3" ->
            IF ok THEN successCount + batchCount ELSE successCount - batchCount

\* errorCount after the commit of the chunk returned (ok) or threw
ErrorAfter(ok, batchCount) ==
    IF ok THEN errorCount
    ELSE IF variant = "v1" THEN errorCount + ChunkLen
    ELSE errorCount + batchCount

\* a writer that would commit the batch of a chunk also when it is empty
CommitsEveryChunk(batchCount) == TRUE

\* v1 commits every chunk; v2 and v3 only if (batchCount > 0)
CommitsChunk(batchCount) == variant = "v1" \/ batchCount > 0

\* what a committed batch does to the collection: all its writes, or nothing
Committed(ok) == IF ok THEN ApplyWrites(coll, ChunkLo, ChunkHi) ELSE coll

\* a loop that a failed commit would end
NextIndexBreaking(ok) == IF ok THEN i + batchSize ELSE Max(i + batchSize, Len(data))

\* for (let i = 0; i < data.length; i += batchSize): the catch around
\* batch.commit() neither breaks nor repeats the iteration
NextIndex(ok) == i + batchSize

\* if (!data || data.length === 0) return zeros; the existing-key scan
Begin ==
    /\ pc = "start"
    /\ IF variant # "v1" /\ Len(data) = 0
       THEN /\ pc' = "done"
            /\ UNCHANGED existingIds
       ELSE /\ pc' = "loop"
            /\ IF mode = "update"
               THEN \E ok \in BOOLEAN : existingIds' = GetExistingDocIds(ok)
               ELSE UNCHANGED existingIds
    /\ UNCHANGED <<variant, mode, data, coll, before, i, successCount,
                   errorCount, skippedCount, commits, fixVars, apiVars, auxVars>>

\* one iteration of the chunk loop that ends in batch.commit()
CommitChunk ==
    /\ pc = "loop"
    /\ i < Len(data)
    /\ LET q == Queued
           batchCount == Cardinality(q)
       IN  /\ CommitsChunk(batchCount)
           /\ \E ok \in BOOLEAN :
                 /\ coll' = Committed(ok)
                 /\ successCount' = SuccessAfter(ok, batchCount)
                 /\ errorCount' = ErrorAfter(ok, batchCount)
                 /\ commits' = Append(commits, [chunk |-> (i \div batchSize) + 1,
                                                ops |-> batchCount,
                                                queued |-> q,
                                                ok |-> ok])
                 /\ i' = NextIndex(ok)
           /\ skippedCount' = skippedCount + (ChunkLen - batchCount)
    /\ UNCHANGED <<variant, mode, data, before, existingIds, pc, fixVars, apiVars, auxVars>>

\* one iteration in which every record of the chunk was skipped: no commit
SkipChunk ==
    /\ pc = "loop"
    /\ i < Len(data)
    /\ LET batchCount == Cardinality(Queued)
       IN  /\ ~CommitsChunk(batchCount)
           /\ skippedCount' = skippedCount + (ChunkLen - batchCount)
    /\ i' = NextIndex(TRUE)
    /\ UNCHANGED <<variant, mode, data, coll, before, existingIds, successCount,
                   errorCount, commits, pc, fixVars, apiVars, auxVars>>

\* return { successCount, errorCount, skippedCount }
Return ==
    /\ pc = "loop"
    /\ i >= Len(data)
    /\ pc' = "done"
    /\ UNCHANGED <<writerVars, fixVars, apiVars, auxVars>>

----------------------------------------------------------------------------
(* Inputs of the writer *)

Variants == {"v1", "v2", "v3"}
ModesOf(v) == IF v = "v1" THEN {"none"} ELSE {"fresh", "update", "force"}

\* v2 callers drop items without _id / id before they call the writer
RecordsOf(v) ==
    [docId : IF v = "v2" THEN Keys ELSE Keys \cup {NoId}, data : NewDocs]

\* short lists: every list of at most MaxTail records
ShortLists(v) == UNION {[1..n -> RecordsOf(v)] : n \in 0..MaxTail}

\* long lists: whole chunks of filler records, then at most one more record
Pads == {c * batchSize : c \in 1..MaxPadChunks}
PadTails(v) == UNION {[1..n -> RecordsOf(v)] : n \in 0..1}

Filler(j) == [docId |-> PadBase + j, data |-> [a |-> 1]]

InputList(p, tail) == [j \in 1..p |-> Filler(j)] \o tail

\* the collection before the call: some of Keys, and all fillers or none
Stored(S, p, padsExist) ==
    [k \in S \cup (IF padsExist THEN {PadBase + j : j \in 1..p} ELSE {}) |-> OldDoc]

NoRequest ==
    [method |-> "none", path |-> "none", key |-> "none", body |-> "none", id |-> "none"]
NoResponse == [status |-> 0, body |-> "none", success |-> FALSE, message |-> "none"]

IdleFix ==
    /\ snapshot = <<>>
    /\ pos = 0
    /\ batch = <<>>
    /\ oldDocIds = <<>>
    /\ fixedCount = 0
    /\ fixSkipped = 0

NoError == "none"                  \* logError = null: nothing is logged

IdleApi ==
    /\ api = "none"
    /\ req = NoRequest
    /\ res = NoResponse
    /\ handler = "none"
    /\ backendCalls = 0
    /\ logged = NoError

NoQuery == [page |-> [given |-> FALSE, text |-> <<>>],
            limit |-> [given |-> FALSE, text |-> <<>>]]
NoPage == [page |-> 0, limit |-> 0, total |-> 0, totalPages |-> 0, data |-> <<>>]

IdlePage ==
    /\ query = NoQuery
    /\ items = <<>>
    /\ paged = NoPage

NoConfig == [kind |-> "null", version |-> 0]

IdleConfig ==
    /\ configCache = NoConfig
    /\ configLastFetched = 0
    /\ clock = 0
    /\ blob = NoConfig
    /\ calls = <<>>

NoMapping == [kind |-> "null", map |-> EmptyFcn]
NoResult == [successCount |-> 0, data |-> [pad |-> 0, tail |-> <<>>]]
NoStorage == [categories |-> <<>>, prompts |-> <<>>, promptDetails |-> <<>>]
NoDb == [categories |-> EmptyFcn, prompts |-> EmptyFcn, promptDetails |-> EmptyFcn,
         pads |-> {}]

IdleRun ==
    /\ script = "none"
    /\ runMode = "none"
    /\ storage = NoStorage
    /\ db = NoDb
    /\ categoriesResult = NoResult
    /\ categoryMapping = NoMapping
    /\ at = "idle"
    /\ fileIx = 0
    /\ todo = <<>>
    /\ inFlight = {}
    /\ trace = <<>>

NoJson == [kind |-> "undefined", n |-> 0, members |-> <<>>]
NotExtracted == [threw |-> "", value |-> NoJson]

IdleExtract ==
    /\ extractor = "none"
    /\ rawData = NoJson
    /\ extracted = NotExtracted

NoGroups == [categories |-> <<>>, prompts |-> <<>>, promptDetails |-> <<>>]

IdleFiles ==
    /\ fileNames = <<>>
    /\ categorized = NoGroups

NoResults == [categories |-> 0 - 1, prompts |-> 0 - 1, promptDetails |-> 0 - 1]

IdleClean ==
    /\ firestore = NoGroups
    /\ atStart = NoGroups
    /\ target = 0
    /\ snapshotDocs = <<>>
    /\ totalDeleted = 0
    /\ results = NoResults
    /\ interfered = FALSE

NoArg == "undefined"               \* args[0] when no argument is given

IdleMode ==
    /\ argv = NoArg
    /\ reads = <<>>
    /\ migrationMode = "none"

IdleRerun ==
    /\ runNo = 0
    /\ dbAfterFirst = NoDb
    /\ firstTrace = <<>>

IdleTools == IdleFiles /\ IdleClean /\ IdleMode /\ IdleRerun

IdleAux == IdlePage /\ IdleConfig /\ IdleRun /\ IdleExtract /\ IdleTools

Init ==
    /\ variant \in Variants
    /\ mode \in ModesOf(variant)
    /\ \/ /\ data \in ShortLists(variant)
          /\ \E S \in SUBSET Keys : coll = Stored(S, 0, FALSE)
       \/ \E p \in Pads, padsExist \in BOOLEAN, S \in SUBSET Keys :
             /\ data \in {InputList(p, t) : t \in PadTails(variant)}
             /\ coll = Stored(S, p, padsExist)
    /\ before = coll
    /\ existingIds = {}
    /\ i = 0
    /\ successCount = 0
    /\ errorCount = 0
    /\ skippedCount = 0
    /\ commits = <<>>
    /\ pc = "start"
    /\ IdleFix
    /\ IdleApi
    /\ IdleAux

Next == Begin \/ CommitChunk \/ SkipChunk \/ Return

Spec == Init /\ [][Next]_vars

----------------------------------------------------------------------------
(* fixPromptDetails: the repair script for nested promptDetails documents *)

\* data.data && Array.isArray(data.data) && data.data.length > 0
IsNested(d) == "data" \in DOMAIN d /\ Len(d.data) > 0

\* const realPromptId = promptData._id (0 when the element has none)
RealPromptId(d) == IF "_id" \in DOMAIN d.data[1] THEN d.data[1]._id ELSE NoId

\* const { _id, ...cleanData } = promptData
CleanData(d) == [f \in DOMAIN d.data[1] \ {"_id"} |-> d.data[1][f]]

\* { ...cleanData, createdAt: serverTimestamp(), updatedAt: serverTimestamp() }
Stamped(d) ==
    [createdAt |-> "serverTimestamp", updatedAt |-> "serverTimestamp"] @@ d

\* the batch.set operations ops[lo..hi] applied in order
RECURSIVE ApplySets(_, _, _, _)
ApplySets(c, ops, lo, hi) ==
    IF lo > hi THEN c
    ELSE IF lo = hi THEN SetDoc(c, ops[lo].key, ops[lo].doc)
    ELSE LET mid == (lo + hi) \div 2
         IN  CHOOSE r \in {ApplySets(l, ops, mid + 1, hi) :
                              l \in {ApplySets(c, ops, lo, mid)}} : TRUE

\* deleteBatch.delete(doc) for every key of ids
DeleteDocs(c, ids) == [k \in DOMAIN c \ {ids[x] : x \in DOMAIN ids} |-> c[k]]

\* snapshot.docs of a collection read: its keys in ascending order
SortedKeys(S) ==
    [x \in 1..Cardinality(S) |->
        CHOOSE k \in S : Cardinality({y \in S : y < k}) = x - 1]

\* const snapshot = await db.collection("promptDetails").get()
FixRead ==
    /\ pc = "fixStart"
    /\ snapshot' = SortedKeys(DOMAIN coll)
    /\ pc' = "fixLoop"
    /\ UNCHANGED <<writerVars, pos, batch, oldDocIds, fixedCount, fixSkipped, apiVars, auxVars>>

\* one iteration of for (const doc of snapshot.docs)
FixVisit ==
    /\ pc = "fixLoop"
    /\ pos < Len(snapshot)
    /\ LET id == snapshot[pos + 1]
           d == coll[id]
       IN  IF IsNested(d)
           THEN IF RealPromptId(d) # NoId
                THEN /\ batch' = Append(batch, [key |-> RealPromptId(d),
                                                doc |-> Stamped(CleanData(d))])
                     /\ oldDocIds' = Append(oldDocIds, id)
                     /\ fixedCount' = fixedCount + 1
                     /\ UNCHANGED fixSkipped
                ELSE UNCHANGED <<batch, oldDocIds, fixedCount, fixSkipped>>
           ELSE /\ fixSkipped' = fixSkipped + 1
                /\ UNCHANGED <<batch, oldDocIds, fixedCount>>
    /\ pos' = pos + 1
    /\ UNCHANGED <<writerVars, snapshot, pc, apiVars, auxVars>>

\* if (fixedCount > 0) await batch.commit(): one batch for all fixed documents
FixCommit ==
    /\ pc = "fixLoop"
    /\ pos = Len(snapshot)
    /\ fixedCount > 0
    /\ \E ok \in BOOLEAN :
          /\ coll' = IF ok THEN ApplySets(coll, batch, 1, Len(batch)) ELSE coll
          /\ commits' = Append(commits, [chunk |-> 1, ops |-> Len(batch),
                                         queued |-> {}, ok |-> ok])
          /\ pc' = IF ok THEN "fixDelete" ELSE "failed"
    /\ UNCHANGED <<variant, mode, data, before, existingIds, i, successCount,
                   errorCount, skippedCount, fixVars, apiVars, auxVars>>

\* await deleteBatch.commit(): one batch for all old documents
FixDelete ==
    /\ pc = "fixDelete"
    /\ \E ok \in BOOLEAN :
          /\ coll' = IF ok THEN DeleteDocs(coll, oldDocIds) ELSE coll
          /\ commits' = Append(commits, [chunk |-> 2, ops |-> Len(oldDocIds),
                                         queued |-> {}, ok |-> ok])
          /\ pc' = IF ok THEN "done" ELSE "failed"
    /\ UNCHANGED <<variant, mode, data, before, existingIds, i, successCount,
                   errorCount, skippedCount, fixVars, apiVars, auxVars>>

\* nothing to fix: return fixedCount
FixReturn ==
    /\ pc = "fixLoop"
    /\ pos = Len(snapshot)
    /\ fixedCount = 0
    /\ pc' = "done"
    /\ UNCHANGED <<writerVars, fixVars, apiVars, auxVars>>

(* Inputs of fixPromptDetails *)

PromptIds == {11, 21}
FlatDoc == [t |-> 1]
Wrapper(p) == [data |-> <<IF p = NoId THEN [t |-> 2] ELSE [_id |-> p, t |-> 2]>>]
EmptyWrapper == [data |-> <<>>]
DetailDocs == {FlatDoc, EmptyWrapper} \cup {Wrapper(p) : p \in PromptIds \cup {NoId}}

\* every collection over Keys, and one of MaxBatchOps + 1 wrappers
SmallDetails == UNION {[S -> DetailDocs] : S \in SUBSET Keys}
ManyWrappers ==
    [k \in {PadBase + j : j \in 1..(MaxBatchOps + 1)} |-> Wrapper(AutoBase + k)]

IdleWriter ==
    /\ variant = "none"
    /\ mode = "none"
    /\ data = <<>>
    /\ existingIds = {}
    /\ i = 0
    /\ successCount = 0
    /\ errorCount = 0
    /\ skippedCount = 0

InitFix ==
    /\ coll \in SmallDetails \cup {ManyWrappers}
    /\ before = coll
    /\ commits = <<>>
    /\ snapshot = <<>>
    /\ pos = 0
    /\ batch = <<>>
    /\ oldDocIds = <<>>
    /\ fixedCount = 0
    /\ fixSkipped = 0
    /\ pc = "fixStart"
    /\ IdleWriter
    /\ IdleApi
    /\ IdleAux

NextFix == FixRead \/ FixVisit \/ FixCommit \/ FixDelete \/ FixReturn

SpecFix == InitFix /\ [][NextFix]_vars

----------------------------------------------------------------------------
(* Read API: the Express pipeline of index.js in its three versions:       *)
(* "firestore" (part_002), "config" (part_003:1) and "static"              *)
(* (part_003:312).  Every request passes cors(), express.json() and        *)
(* verifyAPIKey, in this order, before the routes.                         *)

Absent == "absent"                 \* no x-api-key header: undefined
ExpectedKey == "secret"            \* API_KEY.value()
HeaderValues == {Absent, "", "wrong", ExpectedKey}
Apis == {"firestore", "config", "static"}
Methods == {"GET", "POST", "OPTIONS"}
Paths == {"/health", "/getCategory", "/getCategoryList", "/getPromptDetails", "/other"}
\* the id / _id of the body: missing, "", not a string, a stored one, an unknown
\* one, an unknown one that is no document path ("a/b": a collection's path)
IdKinds == {"missing", "empty", "nonstring", "known", "unknown", "badpath"}
\* the body as express.json sees it: absent or parseable, not parseable,
\* longer than its limit
Bodies == {"ok", "malformed", "tooLarge"}
Requests ==
    [method : Methods, path : Paths, key : HeaderValues, body : Bodies, id : IdKinds]

\* res.status(status).json({success, message, ...})
Reply(status, success, message) ==
    [status |-> status, body |-> "json", success |-> success, message |-> message]
Forbidden == Reply(403, FALSE, "Forbidden - Invalid or missing API key")
\* cors answers a preflight itself: status 204, no body
Preflight == [status |-> 204, body |-> "empty", success |-> FALSE, message |-> "none"]
\* express.json hands its error to the default error handler: no JSON body
ParseError(status) ==
    [status |-> status, body |-> "html", success |-> FALSE, message |-> "none"]

\* the errors a database or storage call of a handler can reject with
BackendErrors == {"unavailable", "permission-denied"}
Outcomes == {"ok"} \cup BackendErrors

\* a responder that would put the caught error into the message
ExposesError(statusCode, message, logError) ==
    Reply(statusCode, FALSE, IF logError # NoError THEN logError ELSE message)

\* sendErrorResponse(res, statusCode, message, logError = null):
\* res.status(statusCode).json({success: false, message})
sendErrorResponse(statusCode, message, logError) == Reply(statusCode, FALSE, message)

\* a check that would reject only a missing header
KeyRejectedIfMissing(receivedKey) ==
    receivedKey \in {Absent, ""} /\ receivedKey # ExpectedKey

\* if (!receivedKey || receivedKey !== expectedKey) return res.status(403)
KeyRejected(receivedKey) ==
    receivedKey \in {Absent, ""} \/ receivedKey # ExpectedKey

\* a pipeline that would mount verifyAPIKey after the /health route
RequiresKeyExceptHealth(r) == r.path # "/health"

\* app.use(verifyAPIKey) is registered before every route, /health included
RequiresKey(r) == TRUE

\* the first route registered for the request's method and path
RouteOf(r) ==
    CASE r.method = "GET" /\ r.path = "/health" -> "health"
      [] r.method = "GET" /\ r.path = "/getCategory" -> "getCategory"
      [] r.method = "POST" /\ r.path = "/getCategoryList" -> "getCategoryList"
      [] r.method = "POST" /\ r.path = "/getPromptDetails" -> "getPromptDetails"
      [] OTHER -> "notFound"

\* if (!id || typeof id !== "string")
IdInvalid(k) == k \in {"missing", "empty", "nonstring"}

\* a request arrives
Receive ==
    /\ pc = "idle"
    /\ req' \in Requests
    /\ pc' = "cors"
    /\ UNCHANGED <<writerVars, fixVars, api, res, handler, backendCalls, logged, auxVars>>

\* app.use(cors({origin: true, credentials: true}))
Cors ==
    /\ pc = "cors"
    /\ IF req.method = "OPTIONS"
       THEN /\ res' = Preflight
            /\ pc' = "sent"
       ELSE /\ pc' = "json"
            /\ UNCHANGED res
    /\ UNCHANGED <<writerVars, fixVars, api, req, handler, backendCalls, logged, auxVars>>

\* app.use(express.json({limit: "10mb"}))
ExpressJson ==
    /\ pc = "json"
    /\ CASE req.body = "malformed" -> res' = ParseError(400) /\ pc' = "sent"
         [] req.body = "tooLarge" -> res' = ParseError(413) /\ pc' = "sent"
         [] OTHER -> pc' = "verify" /\ UNCHANGED res
    /\ UNCHANGED <<writerVars, fixVars, api, req, handler, backendCalls, logged, auxVars>>

\* the verifyAPIKey middleware
VerifyAPIKey ==
    /\ pc = "verify"
    /\ IF RequiresKey(req) /\ KeyRejected(req.key)
       THEN /\ res' = Forbidden
            /\ pc' = "sent"
       ELSE /\ pc' = "route"
            /\ UNCHANGED res
    /\ UNCHANGED <<writerVars, fixVars, api, req, handler, backendCalls, logged, auxVars>>

\* app.get("/health")
Health ==
    /\ pc = "route"
    /\ RouteOf(req) = "health"
    /\ handler' = "health"
    /\ res' = Reply(200, TRUE, "API is running")
    /\ pc' = "sent"
    /\ UNCHANGED <<writerVars, fixVars, api, req, backendCalls, logged, auxVars>>

\* app.get("/getCategory"): one collection read or one storage read
GetCategory ==
    /\ pc = "route"
    /\ RouteOf(req) = "getCategory"
    /\ handler' = "getCategory"
    /\ backendCalls' = backendCalls + 1
    /\ \E outcome \in Outcomes :
          IF outcome = "ok"
          THEN /\ res' = Reply(200, TRUE, "Category list fetched successfully")
               /\ UNCHANGED logged
          ELSE /\ res' = sendErrorResponse(500, "Error fetching categories", outcome)
               /\ logged' = outcome
    /\ pc' = "sent"
    /\ UNCHANGED <<writerVars, fixVars, api, req, auxVars>>

\* app.post("/getCategoryList"): the prompts query (firestore), or the
\* category map, getConfig in the config version, and one storage file
GetCategoryList ==
    /\ pc = "route"
    /\ RouteOf(req) = "getCategoryList"
    /\ handler' = "getCategoryList"
    /\ IF IdInvalid(req.id)
       THEN /\ res' = sendErrorResponse(400, "Missing or invalid 'id' parameter", NoError)
            /\ UNCHANGED <<backendCalls, logged>>
       ELSE \/ /\ api = "static" /\ req.id # "known"
               /\ res' = sendErrorResponse(404, "Invalid category id", NoError)
               /\ UNCHANGED <<backendCalls, logged>>
            \/ /\ api = "config" /\ req.id # "known"
               /\ res' = sendErrorResponse(404, "Invalid category id", NoError)
               /\ \E n \in 0..1 : backendCalls' = backendCalls + n
               /\ UNCHANGED logged
            \/ /\ api = "config"
               /\ \E error \in BackendErrors :
                     /\ res' = sendErrorResponse(500, "Error fetching category list", error)
                     /\ logged' = error
               /\ backendCalls' = backendCalls + 1
            \/ /\ api = "firestore" \/ req.id = "known"
               /\ \E n \in 1..2 : backendCalls' = backendCalls + n
               /\ \E outcome \in Outcomes :
                     IF outcome = "ok"
                     THEN /\ res' = Reply(200, TRUE, "Category data fetched successfully")
                          /\ UNCHANGED logged
                     ELSE /\ res' = sendErrorResponse(500, "Error fetching category list",
                                                      outcome)
                          /\ logged' = outcome
    /\ pc' = "sent"
    /\ UNCHANGED <<writerVars, fixVars, api, req, auxVars>>

\* app.post("/getPromptDetails"): one document read (firestore), or a search
\* through the detail files in which a file that cannot be read is passed over
GetPromptDetails ==
    /\ pc = "route"
    /\ RouteOf(req) = "getPromptDetails"
    /\ handler' = "getPromptDetails"
    /\ IF IdInvalid(req.id)
       THEN /\ res' = sendErrorResponse(400, "Missing or invalid '_id' parameter", NoError)
            /\ UNCHANGED <<backendCalls, logged>>
       ELSE IF api = "firestore" /\ req.id = "badpath"
       THEN \* db.collection(...).doc(_id) throws before any read
            /\ res' = sendErrorResponse(500, "Error fetching prompt details", "invalid-path")
            /\ logged' = "invalid-path"
            /\ UNCHANGED backendCalls
       ELSE \/ /\ req.id = "known"
               /\ res' = Reply(200, TRUE, "Prompt details fetched successfully")
               /\ \E n \in 1..2 : backendCalls' = backendCalls + n
               /\ UNCHANGED logged
            \/ /\ req.id # "known" \/ api # "firestore"
               /\ res' = sendErrorResponse(404, "Prompt not found", NoError)
               /\ \E n \in 1..2 : backendCalls' = backendCalls + n
               /\ UNCHANGED logged
            \/ /\ api # "static"
               /\ \E error \in BackendErrors :
                     /\ res' = sendErrorResponse(500, "Error fetching prompt details", error)
                     /\ logged' = error
               /\ backendCalls' = backendCalls + 1
    /\ pc' = "sent"
    /\ UNCHANGED <<writerVars, fixVars, api, req, auxVars>>

\* app.all("*"): every other method and path
NotFound ==
    /\ pc = "route"
    /\ RouteOf(req) = "notFound"
    /\ handler' = "notFound"
    /\ res' = Reply(404, FALSE, "Route not found")
    /\ pc' = "sent"
    /\ UNCHANGED <<writerVars, fixVars, api, req, backendCalls, logged, auxVars>>

InitApi ==
    /\ api \in Apis
    /\ req = NoRequest
    /\ res = NoResponse
    /\ handler = "none"
    /\ backendCalls = 0
    /\ logged = NoError
    /\ pc = "idle"
    /\ IdleWriter
    /\ coll = EmptyFcn
    /\ before = EmptyFcn
    /\ commits = <<>>
    /\ IdleFix
    /\ IdleAux

NextApi ==
    \/ Receive \/ Cors \/ ExpressJson \/ VerifyAPIKey \/ Health \/ GetCategory \/ GetCategoryList
    \/ GetPromptDetails \/ NotFound

SpecApi == InitApi /\ [][NextApi]_vars

----------------------------------------------------------------------------
(* Pagination of /getCategoryList: queryWithPagination (firestore) and     *)
(* paginate (config, static).  A query parameter is a string, here a       *)
(* sequence of characters, or is missing.  A JavaScript number is an       *)
(* integer; every finite number of Big or more is represented by Big, and  *)
(* the value Infinity by the integer Infinity.                             *)

Big == 1000000000
Infinity == Big + Big
MaxSafeDigits == 9          \* digit strings up to this length are below Big
MaxFiniteDigits == 309      \* longer digit strings exceed Number.MAX_VALUE

DigitChars == {"0", "1", "2", "5", "9"}
Chars == DigitChars \cup {"-", "a", " "}
DigitVal(c) ==
    CASE c = "0" -> 0 [] c = "1" -> 1 [] c = "2" -> 2 [] c = "5" -> 5 [] c = "9" -> 9

\* the value of the digit string d[lo..hi] (at most MaxSafeDigits digits)
RECURSIVE DigitsValue(_, _, _)
DigitsValue(d, lo, hi) ==
    IF lo > hi THEN 0 ELSE DigitsValue(d, lo, hi - 1) * 10 + DigitVal(d[hi])

IsSpace(c) == c = " "
IsDigit(c) == c \in DigitChars
IsZero(c) == c = "0"

\* the first position from `from` on whose character is not in run,
\* Len + 1 if none
RunEnd(s, from, run) ==
    CHOOSE e \in from..(Len(s) + 1) :
        /\ \A x \in from..(e - 1) : s[x] \in run
        /\ e = Len(s) + 1 \/ s[e] \notin run

\* parseInt(string): white space, an optional sign, then the longest run of
\* decimal digits; NaN when that run is empty
ParseInt(s) ==
    LET b == RunEnd(s, 1, {c \in Chars : IsSpace(c)})
        neg == b <= Len(s) /\ s[b] = "-"
        d == IF neg THEN b + 1 ELSE b
        e == RunEnd(s, d, {c \in Chars : IsDigit(c)})
        z == Min(RunEnd(s, d, {c \in Chars : IsZero(c)}), e)
        n == e - z
        mag == IF n > MaxFiniteDigits THEN Infinity
               ELSE IF n > MaxSafeDigits THEN Big
               ELSE DigitsValue(s, z, e - 1)
    IN  IF e = d THEN [nan |-> TRUE, n |-> 0]
        ELSE [nan |-> FALSE, n |-> IF neg THEN 0 - mag ELSE mag]

\* parseInt(x) || dflt, x being the parameter or, when it is undefined, the
\* default value of the function's parameter
ParseOr(raw, paramDefault, dflt) ==
    LET v == IF raw.given THEN ParseInt(raw.text) ELSE [nan |-> FALSE, n |-> paramDefault]
    IN  IF v.nan \/ v.n = 0 THEN dflt ELSE v.n

\* page = Math.max(1, parseInt(page) || 1)
SanitizePage(raw) == Max(1, ParseOr(raw, 1, 1))

\* limit = Math.min(100, Math.max(1, parseInt(limit) || 10))
SanitizeLimit(raw) == Min(100, Max(1, ParseOr(raw, 10, 10)))

\* an offset that would take the page number for the number of pages to skip
OffsetOfNextPage(page, limit) ==
    IF page = Infinity THEN Infinity
    ELSE IF page >= Big \div limit THEN Big
    ELSE page * limit

\* (page - 1) * limit in floating point: Infinity stays Infinity, a finite
\* product of Big or more is Big
Offset(page, limit) ==
    IF page = Infinity THEN Infinity
    ELSE IF page - 1 >= Big \div limit THEN Big
    ELSE (page - 1) * limit

\* start + limit
EndOf(start, limit) == IF start >= Big THEN start ELSE start + limit

\* Math.ceil(total / limit)
CeilDiv(total, limit) == (total + limit - 1) \div limit

\* array.slice(start, end) for 0 <= start <= end
Slice(array, start, end) ==
    SubSeq(array, Min(start, Len(array)) + 1, Min(end, Len(array)))

\* a number in a JSON body: JSON.stringify writes Infinity as null
JsonNumber(n) == IF n = Infinity THEN [null |-> TRUE, n |-> 0] ELSE [null |-> FALSE, n |-> n]

\* the object returned by paginate / queryWithPagination
Paginated(array, rawPage, rawLimit) ==
    LET page == SanitizePage(rawPage)
        limit == SanitizeLimit(rawLimit)
        start == Offset(page, limit)
    IN  [page |-> page, limit |-> limit, total |-> Len(array),
         totalPages |-> CeilDiv(Len(array), limit),
         data |-> Slice(array, start, EndOf(start, limit))]

\* res.json({success: true, message, ...paginated})
PageReply(pg) ==
    [status |-> 200, body |-> "json", success |-> TRUE,
     message |-> "Category data fetched successfully",
     page |-> JsonNumber(pg.page), limit |-> JsonNumber(pg.limit),
     total |-> pg.total, totalPages |-> pg.totalPages, data |-> pg.data]

\* config / static: const data = await fetchJSONFromStorage(fileName);
\* const paginated = paginate(data, page, limit)
Paginate ==
    /\ pc = "page"
    /\ api # "firestore"
    /\ \E ok \in BOOLEAN :
          IF ok
          THEN /\ paged' = Paginated(items, query.page, query.limit)
               /\ res' = PageReply(paged')
          ELSE /\ res' = Reply(500, FALSE, "Error fetching category list")
               /\ UNCHANGED paged
    /\ pc' = "sent"
    /\ UNCHANGED <<writerVars, fixVars, api, req, handler, backendCalls, logged, query, items,
                   configVars, runVars, extractVars, toolVars>>

\* firestore: the count query and the offset / limit query; either may throw,
\* and .offset(Infinity) throws in the database client
QueryWithPagination ==
    /\ pc = "page"
    /\ api = "firestore"
    /\ \E ok \in BOOLEAN :
          IF ok /\ Offset(SanitizePage(query.page), SanitizeLimit(query.limit)) # Infinity
          THEN /\ paged' = Paginated(items, query.page, query.limit)
               /\ res' = PageReply(paged')
          ELSE /\ res' = Reply(500, FALSE, "Error fetching category list")
               /\ UNCHANGED paged
    /\ pc' = "sent"
    /\ UNCHANGED <<writerVars, fixVars, api, req, handler, backendCalls, logged, query, items,
                   configVars, runVars, extractVars, toolVars>>

(* Inputs of the pagination *)

MaxRawLen == 3        \* every string of at most this many characters is drawn
MaxTotal == 3         \* the category holds 0..MaxTotal prompts, or ExampleTotal
ExampleTotal == 25

Missing == [given |-> FALSE, text |-> <<>>]
Given(text) == [given |-> TRUE, text |-> text]
Strings(n) == UNION {[1..k -> Chars] : k \in 0..n}
Nines(n) == [x \in 1..n |-> "9"]
\* "1000", the digits of 10^21 and a digit string beyond Number.MAX_VALUE
LongStrings ==
    {<<"1", "0", "0", "0">>, <<"1">> \o [x \in 1..21 |-> "0"], Nines(MaxFiniteDigits + 1)}
RawValues == {Missing} \cup {Given(t) : t \in Strings(MaxRawLen) \cup LongStrings}
PlainValues == {Missing, Given(<<"1">>), Given(<<"2">>), Given(<<"1", "0">>)}
Queries ==
    [page : RawValues, limit : PlainValues] \cup [page : PlainValues, limit : RawValues]
ItemLists == {[x \in 1..t |-> x] : t \in (0..MaxTotal) \cup {ExampleTotal}}

InitPage ==
    /\ api \in Apis
    /\ query \in Queries
    /\ items \in ItemLists
    /\ paged = NoPage
    /\ req = NoRequest
    /\ res = NoResponse
    /\ handler = "getCategoryList"
    /\ backendCalls = 0
    /\ logged = NoError
    /\ pc = "page"
    /\ IdleWriter
    /\ coll = EmptyFcn
    /\ before = EmptyFcn
    /\ commits = <<>>
    /\ IdleFix
    /\ IdleConfig
    /\ IdleRun
    /\ IdleExtract
    /\ IdleTools

NextPage == Paginate \/ QueryWithPagination

SpecPage == InitPage /\ [][NextPage]_vars

----------------------------------------------------------------------------
(* getConfig: the configuration cache of the config version of index.js.   *)
(* A call that has to fetch is suspended at its storage read; other calls  *)
(* and the clock run meanwhile.                                            *)

CONFIG_CACHE_TTL == 5 * 60 * 1000

\* a parsed config.json that has a categoryMap and promptDetailsFiles
ValidConfig(v) == [kind |-> "valid", version |-> v]

(* Inputs of getConfig *)

MaxCalls == 2         \* getConfig invocations in one run
MaxVersions == 2      \* distinct valid contents of config.json
MaxWindows == 1       \* the clock runs through this many cache windows

\* missing blob, unparsable blob, a blob lacking one of the two properties
BadBlobs ==
    {[kind |-> k, version |-> 0] :
        k \in {"missing", "unparsable", "noCategoryMap", "noPromptDetailsFiles"}}
Blobs == BadBlobs \cup {ValidConfig(v) : v \in 1..MaxVersions}
\* the instants at which something happens: around every multiple of the
\* window, one millisecond apart
Instants ==
    {k * CONFIG_CACHE_TTL + j : k \in 0..MaxWindows, j \in {1, 2, CONFIG_CACHE_TTL}}

\* !config.categoryMap || !config.promptDetailsFiles throws; so does a blob
\* that is missing or cannot be parsed
IsValid(content) == content.kind = "valid"

\* a cache that would still count as fresh when the whole window has elapsed
CacheFreshInclusive(now) ==
    /\ configCache # NoConfig
    /\ configLastFetched # 0
    /\ now - configLastFetched <= CONFIG_CACHE_TTL

\* configCache && configLastFetched && (now - configLastFetched < CONFIG_CACHE_TTL)
CacheFresh(now) ==
    /\ configCache # NoConfig
    /\ configLastFetched # 0
    /\ now - configLastFetched < CONFIG_CACHE_TTL

\* a catch that would rethrow whether or not a configuration is cached
FallbackThrows(c) == [c EXCEPT !.state = "threw", !.status = 500]

\* if (configCache) return configCache; else throw
Fallback(c) ==
    IF configCache # NoConfig
    THEN [c EXCEPT !.state = "returned", !.value = configCache]
    ELSE [c EXCEPT !.state = "threw", !.status = 500]

\* getConfig() up to its return of the cache or its await of the storage read
GetConfigCall ==
    /\ pc = "config"
    /\ Len(calls) < MaxCalls
    /\ LET now == clock
           c == [now |-> now, cacheAtCall |-> configCache,
                 lastAtCall |-> configLastFetched, read |-> ~CacheFresh(now),
                 state |-> IF CacheFresh(now) THEN "returned" ELSE "fetching",
                 value |-> IF CacheFresh(now) THEN configCache ELSE NoConfig,
                 stored |-> FALSE, status |-> 0]
       IN  calls' = Append(calls, c)
    /\ UNCHANGED <<writerVars, fixVars, apiVars, pageVars, runVars, extractVars, toolVars,
                   configCache,
                   configLastFetched, clock, blob, pc>>

\* the storage read of call c settles: the content is validated and cached,
\* or the catch falls back to the cache or throws (the handler answers 500)
GetConfigSettle ==
    /\ pc = "config"
    /\ \E c \in DOMAIN calls, ok \in BOOLEAN :
          /\ calls[c].state = "fetching"
          /\ LET content == IF ok THEN blob ELSE [kind |-> "error", version |-> 0]
             IN  IF IsValid(content)
                 THEN /\ configCache' = content
                      /\ configLastFetched' = calls[c].now
                      /\ calls' = [calls EXCEPT ![c].state = "returned",
                                                ![c].value = content,
                                                ![c].stored = TRUE]
                 ELSE /\ calls' = [calls EXCEPT ![c] = Fallback(calls[c])]
                      /\ UNCHANGED <<configCache, configLastFetched>>
    /\ UNCHANGED <<writerVars, fixVars, apiVars, pageVars, runVars, extractVars, toolVars,
                   clock, blob, pc>>

\* time passes
Tick ==
    /\ pc = "config"
    /\ clock' \in {t \in Instants : t > clock}
    /\ UNCHANGED <<writerVars, fixVars, apiVars, pageVars, runVars, extractVars, toolVars,
                   configCache,
                   configLastFetched, blob, calls, pc>>

\* somebody replaces or removes data/config.json
Upload ==
    /\ pc = "config"
    /\ blob' \in Blobs \ {blob}
    /\ UNCHANGED <<writerVars, fixVars, apiVars, pageVars, runVars, extractVars, toolVars,
                   configCache,
                   configLastFetched, clock, calls, pc>>

InitConfig ==
    /\ configCache = NoConfig
    /\ configLastFetched = 0
    /\ clock = 1
    /\ blob \in Blobs
    /\ calls = <<>>
    /\ pc = "config"
    /\ IdleWriter
    /\ coll = EmptyFcn
    /\ before = EmptyFcn
    /\ commits = <<>>
    /\ IdleFix
    /\ IdleApi
    /\ IdlePage
    /\ IdleRun
    /\ IdleExtract
    /\ IdleTools

NextConfig == GetConfigCall \/ GetConfigSettle \/ Tick \/ Upload

SpecConfig == InitConfig /\ [][NextConfig]_vars

----------------------------------------------------------------------------
(* main of the migration scripts: migrate-to-firestore-v2 (part_000:431)   *)
(* and migrate-to-firestore.js (846).  A file holds a list of records; a   *)
(* list is `pad` filler records (name "filler", keys above PadBase that no *)
(* other record uses) followed by the records of `tail`.  A record is      *)
(* [id, name]: id is its _id (NoId: none), name its category name.         *)

MaxCats == 2
MaxPromptFiles == 2
MaxDetails == 2

NoName == ""
Names == {"Music", "music", "Art"}
WritePositions == {"categories.write", "prompts.write", "promptDetails.write"}

\* name.toLowerCase()
Lower(n) ==
    CASE n = "Music" -> "music"
      [] n = "Art" -> "art"
      [] OTHER -> n

LenOf(l) == l.pad + Len(l.tail)

\* a migrate function that would pass records without _id / id on as well
WithoutIdToo(l) == l

\* items.forEach(item => { const docId = item._id || item.id;
\*                         if (!docId) return; ... push })  (v2)
WithId(l) == [pad |-> l.pad, tail |-> SelectSeq(l.tail, LAMBDA r : r.id # NoId)]

\* the key of a document written with .doc(): unique to the call and record
AutoKey(j) == AutoBase + 100 * runNo + 10 * Len(trace) + j

\* the document a category record becomes
CategoryDoc(r) == IF r.name = NoName THEN EmptyFcn ELSE [name |-> r.name]

\* ...item, ...(categoryId && { categoryId }): `from` stands for the fields
\* of the record, which name the file it came from
PromptDoc(file, categoryId) ==
    IF categoryId = NoId THEN [from |-> file]
    ELSE [from |-> file, categoryId |-> categoryId]

\* the fields of a detail record; `of` is the _id the record carries
DetailDoc(r) == [of |-> r.id]

\* one batch.set: the key (NoId: auto-generated on write) and the document
Op(r, doc) == [key |-> r.id, doc |-> doc]

\* the batch operations of a list, docs[j] being the document of record j
OpsOf(l, docs) ==
    [pad |-> l.pad, tail |-> [j \in 1..Len(l.tail) |-> Op(l.tail[j], docs[j])]]

\* the documents of the records of a list
CategoryDocs(l) == [j \in 1..Len(l.tail) |-> CategoryDoc(l.tail[j])]
DetailRecordDocs(l) == [j \in 1..Len(l.tail) |-> DetailDoc(l.tail[j])]

\* getExistingDocIds(collectionName): the keys, or the empty Set on error
ExistingOf(collName, ok) ==
    IF ok THEN [keys |-> DOMAIN db[collName], pads |-> collName \in db.pads]
    ELSE [keys |-> {}, pads |-> FALSE]

NothingExists == [keys |-> {}, pads |-> FALSE]

\* data.slice(i, i + batchSize) for the k-th iteration, less the records
\* that update mode skips
ChunkAt(collName, ops, existing, k) ==
    LET lo == (k - 1) * batchSize + 1
        hi == Min(k * batchSize, LenOf(ops))
        part == SubSeq(ops.tail, Max(lo, ops.pad + 1) - ops.pad, hi - ops.pad)
        skip(o) == runMode = "update" /\ o.key # NoId /\ o.key \in existing.keys
    IN  [coll |-> collName,
         no |-> k,
         fill |-> IF runMode = "update" /\ existing.pads THEN 0
                  ELSE Max(0, Min(hi, ops.pad) - lo + 1),
         ops |-> SelectSeq(part, LAMBDA o : ~skip(o))]

BatchCount(c) == c.fill + Len(c.ops)

\* the chunks of the loop that reach batch.commit(): if (batchCount > 0)
ChunksToCommit(collName, ops, existing) ==
    SelectSeq([k \in 1..CeilDiv(LenOf(ops), batchSize) |->
                  ChunkAt(collName, ops, existing, k)],
              LAMBDA c : BatchCount(c) > 0)

\* batchWriteToFirestore up to its loop: returns at once on an empty list,
\* reads the existing keys in update mode
BeginWrite(collName, ops) ==
    IF LenOf(ops) = 0 THEN todo' = <<>>
    ELSE IF runMode = "update"
    THEN \E ok \in BOOLEAN :
            todo' = ChunksToCommit(collName, ops, ExistingOf(collName, ok))
    ELSE todo' = ChunksToCommit(collName, ops, NothingExists)

\* the writes of a committed batch, in the order they were queued
RECURSIVE ApplyOps(_, _, _, _)
ApplyOps(c, ops, k, autoFrom) ==
    IF k > Len(ops) THEN c
    ELSE LET o == ops[k]
             key == IF o.key # NoId THEN o.key ELSE autoFrom + k
             next == IF runMode = "force" THEN SetMerge(c, key, o.doc)
                     ELSE SetDoc(c, key, o.doc)
         IN  CHOOSE r \in {ApplyOps(n, ops, k + 1, autoFrom) : n \in {next}} : TRUE

\* a loop that would start the next commit without awaiting the last one
StartsWithoutAwait(flying) == TRUE

\* await batch.commit(): the loop goes on when the promise has settled
MayProceed(flying) == flying = {}

Event(ev, collName, ok) == [ev |-> ev, coll |-> collName, ok |-> ok]

\* const batch = db.batch(); ...; batch.commit() is called
CommitStart ==
    /\ at \in WritePositions
    /\ todo # <<>>
    /\ MayProceed(inFlight)
    /\ inFlight' = inFlight \cup {Head(todo)}
    /\ todo' = Tail(todo)
    /\ trace' = Append(trace, Event("start", Head(todo).coll, TRUE))
    /\ UNCHANGED <<script, runMode, storage, db, categoriesResult,
                   categoryMapping, at, fileIx>>
    /\ UNCHANGED <<writerVars, fixVars, apiVars, pageVars, configVars, extractVars,
                   toolVars, pc>>

\* the promise of batch.commit() settles: all writes of the batch, or none
CommitEnd ==
    /\ \E c \in inFlight, ok \in BOOLEAN :
          /\ inFlight' = inFlight \ {c}
          /\ db' = IF ~ok THEN db
                   ELSE [db EXCEPT ![c.coll] = ApplyOps(@, c.ops, 1, AutoKey(0)),
                                   !.pads = IF c.fill > 0 THEN @ \cup {c.coll}
                                            ELSE @]
          /\ categoriesResult' =
                IF ok /\ c.coll = "categories"
                THEN [categoriesResult EXCEPT !.successCount = @ + BatchCount(c)]
                ELSE categoriesResult
          /\ trace' = Append(trace, Event("end", c.coll, ok))
    /\ UNCHANGED <<script, runMode, storage, categoryMapping, at, fileIx, todo>>
    /\ UNCHANGED <<writerVars, fixVars, apiVars, pageVars, configVars, extractVars,
                   toolVars, pc>>

\* batchWriteToFirestore returns to migrateCategories / migratePrompts /
\* migratePromptDetails, which loops (v3: one call per file) or returns
WriteReturn ==
    /\ at \in WritePositions
    /\ todo = <<>>
    /\ inFlight = {}
    /\ LET kind == CASE at = "categories.write" -> "categories"
                     [] at = "prompts.write" -> "prompts"
                     [] OTHER -> "promptDetails"
           more == script = "v3" /\ kind # "categories"
                   /\ fileIx + 1 < Len(storage[kind])
       IN  /\ fileIx' = IF more THEN fileIx + 1 ELSE 0
           /\ at' = CASE more -> kind
                      [] ~more /\ kind = "categories" -> "mapping"
                      [] ~more /\ kind = "prompts" -> "promptDetails"
                      [] OTHER -> "done"
    /\ UNCHANGED <<script, runMode, storage, db, categoriesResult,
                   categoryMapping, todo, inFlight, trace>>
    /\ UNCHANGED <<writerVars, fixVars, apiVars, pageVars, configVars, extractVars,
                   toolVars, pc>>

\* listAndCategorizeFiles / listFilesInStorage + categorizeFiles; main
\* returns when the folder has no JSON file
ListFiles ==
    /\ at = "start"
    /\ at' = IF storage = NoStorage THEN "done" ELSE "categories"
    /\ UNCHANGED <<script, runMode, storage, db, categoriesResult,
                   categoryMapping, fileIx, todo, inFlight, trace>>
    /\ UNCHANGED <<writerVars, fixVars, apiVars, pageVars, configVars, extractVars,
                   toolVars, pc>>

\* migrateCategories up to its batchWriteToFirestore call; a file that
\* cannot be fetched or holds no array throws through main to process.exit(1)
MigrateCategories ==
    /\ at = "categories"
    /\ IF storage.categories = <<>>
       THEN /\ at' = "mapping"
            /\ UNCHANGED <<categoriesResult, todo>>
       ELSE \E ok \in BOOLEAN :
               IF ~ok
               THEN /\ at' = "exit1"
                    /\ UNCHANGED <<categoriesResult, todo>>
               ELSE LET list == storage.categories[1].list
                        sent == IF script = "v2" THEN WithId(list) ELSE list
                    IN  /\ BeginWrite("categories", OpsOf(sent, CategoryDocs(sent)))
                        /\ categoriesResult' = [successCount |-> 0, data |-> list]
                        /\ at' = "categories.write"
    /\ UNCHANGED <<script, runMode, storage, db, categoryMapping, fileIx,
                   inFlight, trace>>
    /\ UNCHANGED <<writerVars, fixVars, apiVars, pageVars, configVars, extractVars,
                   toolVars, pc>>

\* mapping[name] = id; mapping[name.toLowerCase()] = id
Put(m, name, id) == (name :> id) @@ ((Lower(name) :> id) @@ m)

\* the forEach over the category documents or records, in their order:
\* if (name && id) { ... }
RECURSIVE AddNames(_, _, _)
AddNames(m, docs, k) ==
    IF k > Len(docs) THEN m
    ELSE LET d == docs[k]
             next == IF d.name # NoName /\ d.id # NoId THEN Put(m, d.name, d.id)
                     ELSE m
         IN  CHOOSE r \in {AddNames(n, docs, k + 1) : n \in {next}} : TRUE

NameOf(doc) == IF "name" \in DOMAIN doc THEN doc.name ELSE NoName

\* snapshot.docs of the categories collection: [id, name] in key order;
\* the filler documents, when stored, all map the name "filler"
SnapshotDocs ==
    LET keys == SortedKeys(DOMAIN db.categories)
    IN  [x \in 1..Len(keys) |->
            [id |-> keys[x], name |-> NameOf(db.categories[keys[x]])]]
        \o (IF "categories" \in db.pads
            THEN <<[id |-> PadBase + batchSize, name |-> "filler"]>>
            ELSE <<>>)

\* the records of a list in file order, fillers as one entry
DataDocs(l) ==
    (IF l.pad > 0 THEN <<[id |-> PadBase + l.pad, name |-> "filler"]>> ELSE <<>>)
    \o l.tail

Mapping(m) == [kind |-> "object", map |-> m]

\* v2 buildCategoryMapping(): from the collection; {} when the read throws
MappingV2(ok) ==
    IF ok THEN Mapping(AddNames(EmptyFcn, SnapshotDocs, 1)) ELSE Mapping(EmptyFcn)

\* v3 buildCategoryMapping(categoriesData, mode): from the collection in
\* update mode, from the imported records otherwise or when the read throws
MappingV3(ok) ==
    IF runMode = "update" /\ ok
    THEN Mapping(AddNames(EmptyFcn, SnapshotDocs, 1))
    ELSE Mapping(AddNames(EmptyFcn, DataDocs(categoriesResult.data), 1))

\* whether main calls buildCategoryMapping at all
BuildsMapping ==
    IF script = "v2"
    THEN categoriesResult.successCount > 0 \/ runMode = "update"
    ELSE runMode = "update" \/ LenOf(categoriesResult.data) > 0

\* let categoryMapping = null; if (...) categoryMapping = await buildCategoryMapping(...)
BuildCategoryMapping ==
    /\ at = "mapping"
    /\ IF BuildsMapping
       THEN /\ \E ok \in BOOLEAN :
                  categoryMapping' = IF script = "v2" THEN MappingV2(ok)
                                     ELSE MappingV3(ok)
            /\ trace' = Append(trace, Event("mapping", "categories", TRUE))
       ELSE UNCHANGED <<categoryMapping, trace>>
    /\ at' = "prompts"
    /\ UNCHANGED <<script, runMode, storage, db, categoriesResult, fileIx,
                   todo, inFlight>>
    /\ UNCHANGED <<writerVars, fixVars, apiVars, pageVars, configVars, extractVars,
                   toolVars, pc>>

\* categoryMapping[categoryName] || categoryMapping[categoryName.toLowerCase()]
\* under if (categoryName && categoryMapping); NoId: null / undefined
CategoryIdFor(mapping, categoryName) ==
    IF mapping.kind = "null" THEN NoId
    ELSE IF categoryName \in DOMAIN mapping.map THEN mapping.map[categoryName]
    ELSE IF Lower(categoryName) \in DOMAIN mapping.map
         THEN mapping.map[Lower(categoryName)]
    ELSE NoId

\* the records of one prompt file as batch operations, stamped
PromptOps(file) ==
    OpsOf(file.list,
          [j \in 1..Len(file.list.tail) |->
              PromptDoc(file.name, CategoryIdFor(categoryMapping, file.name))])

\* v2: allPromptsData of the files from k on (fillers lead the first file)
RECURSIVE AllPromptOps(_, _)
AllPromptOps(files, k) ==
    IF k > Len(files) THEN [pad |-> 0, tail |-> <<>>]
    ELSE LET here == PromptOps([files[k] EXCEPT !.list = WithId(@)])
             rest == AllPromptOps(files, k + 1)
         IN  [pad |-> here.pad, tail |-> here.tail \o rest.tail]

\* migratePrompts up to a batchWriteToFirestore call: v2 gathers the records
\* of all files into one call, v3 calls once per file
MigratePrompts ==
    /\ at = "prompts"
    /\ IF storage.prompts = <<>>
       THEN /\ at' = "promptDetails"
            /\ UNCHANGED todo
       ELSE \E ok \in BOOLEAN :
               IF ~ok
               THEN /\ at' = "exit1"
                    /\ UNCHANGED todo
               ELSE /\ BeginWrite("prompts",
                                  IF script = "v2"
                                  THEN AllPromptOps(storage.prompts, 1)
                                  ELSE PromptOps(storage.prompts[fileIx + 1]))
                    /\ at' = "prompts.write"
    /\ UNCHANGED <<script, runMode, storage, db, categoriesResult,
                   categoryMapping, fileIx, inFlight, trace>>
    /\ UNCHANGED <<writerVars, fixVars, apiVars, pageVars, configVars, extractVars,
                   toolVars, pc>>

\* migratePromptDetails up to its batchWriteToFirestore call; v2 passes
\* only the records that carry an _id, keyed by it
MigratePromptDetails ==
    /\ at = "promptDetails"
    /\ IF storage.promptDetails = <<>>
       THEN /\ at' = "done"
            /\ UNCHANGED todo
       ELSE \E ok \in BOOLEAN :
               IF ~ok
               THEN /\ at' = "exit1"
                    /\ UNCHANGED todo
               ELSE LET list == storage.promptDetails[fileIx + 1].list
                        sent == IF script = "v2" THEN WithId(list) ELSE list
                    IN  /\ BeginWrite("promptDetails", OpsOf(sent, DetailRecordDocs(sent)))
                        /\ at' = "promptDetails.write"
    /\ UNCHANGED <<script, runMode, storage, db, categoriesResult,
                   categoryMapping, fileIx, inFlight, trace>>
    /\ UNCHANGED <<writerVars, fixVars, apiVars, pageVars, configVars, extractVars,
                   toolVars, pc>>

(* Inputs of a run *)

Scripts == {"v2", "v3"}
RunModes == {"fresh", "update", "force"}
NoList == [pad |-> 0, tail |-> <<>>]

\* the k-th record of a category file: its key is k, or it has none
CategoryRecords(k) ==
    {[id |-> k, name |-> n] : n \in Names} \cup {[id |-> NoId, name |-> "Music"]}

\* lists of up to n entries, the k-th drawn from R[k]
RECURSIVE ListsOf(_, _)
ListsOf(n, R) ==
    IF n = 0 THEN {<<>>}
    ELSE LET shorter == ListsOf(n - 1, R)
         IN  shorter \cup {Append(l, r) : l \in {s \in shorter : Len(s) = n - 1},
                                           r \in R[n]}

Padded(tails) ==
    {[pad |-> 0, tail |-> t] : t \in tails}
    \cup {[pad |-> batchSize, tail |-> t] : t \in {s \in tails : Len(s) <= 1}}

CategoryFiles ==
    {<<>>} \cup {<<[name |-> "categories", list |-> l]>> :
                    l \in Padded(ListsOf(MaxCats, [k \in 1..MaxCats |-> CategoryRecords(k)]))}

\* prompt files prompts_<Name>.json; the k-th file holds one record, keyed
\* 10 + k (or unkeyed, or after 500 fillers, when it is the only file)
PromptFiles ==
    LET one(k, n) == [name |-> n, list |-> [pad |-> 0, tail |-> <<[id |-> 10 + k, name |-> NoName]>>]]
        several == ListsOf(MaxPromptFiles,
                           [k \in 1..MaxPromptFiles |-> {one(k, n) : n \in Names}])
        alone == {<<[name |-> n,
                     list |-> [pad |-> p, tail |-> <<[id |-> x, name |-> NoName]>>]]>> :
                    n \in Names, p \in {0, batchSize}, x \in {NoId, 11}}
    IN  several \cup alone

DetailFiles ==
    {<<>>} \cup
    {<<[name |-> "promptDetails_a",
        list |-> [pad |-> 0, tail |-> [j \in 1..n |-> [id |-> IF j = 2 THEN NoId ELSE 10 + j,
                                                       name |-> NoName]]]]>> :
        n \in 1..MaxDetails}

\* what an earlier run left in the database
EarlierRuns ==
    {NoDb,
     [categories |-> (1 :> [name |-> "music"]) @@ (9 :> [name |-> "Music"]),
      prompts |-> (11 :> [from |-> "Music", categoryId |-> 9]),
      promptDetails |-> EmptyFcn,
      pads |-> {}]}

InitRun ==
    /\ script \in Scripts
    /\ runMode \in RunModes
    /\ \E c \in CategoryFiles, p \in PromptFiles, d \in DetailFiles :
          storage = [categories |-> c, prompts |-> p, promptDetails |-> d]
    /\ db \in EarlierRuns
    /\ categoriesResult = NoResult
    /\ categoryMapping = NoMapping
    /\ at = "start"
    /\ fileIx = 0
    /\ todo = <<>>
    /\ inFlight = {}
    /\ trace = <<>>
    /\ pc = "run"
    /\ IdleWriter
    /\ coll = EmptyFcn
    /\ before = EmptyFcn
    /\ commits = <<>>
    /\ IdleFix
    /\ IdleApi
    /\ IdlePage
    /\ IdleConfig
    /\ IdleExtract
    /\ IdleTools

NextRun ==
    \/ ListFiles
    \/ MigrateCategories
    \/ BuildCategoryMapping
    \/ MigratePrompts
    \/ MigratePromptDetails
    \/ CommitStart
    \/ CommitEnd
    \/ WriteReturn

SpecRun == InitRun /\ [][NextRun]_vars

----------------------------------------------------------------------------
(* extractArrayFromJSON (part_000:76, migrate-to-firestore.js:500).  A     *)
(* parsed JSON value is [kind, n, members]: an array is told from other    *)
(* arrays by n; the members of an object are <<[key, value], ...>> in the  *)
(* order of the JSON text, keys distinct.                                  *)

MaxMembers == 2
MaxArrays == 2

PossibleKeysV2 == <<"data", "items", "results", "categories", "prompts",
                    "promptDetails", "list">>
PossibleKeysV3 == PossibleKeysV2 \o <<"records">>
PossibleKeys == IF extractor = "v2" THEN PossibleKeysV2 ELSE PossibleKeysV3

Array(n) == [kind |-> "array", n |-> n, members |-> <<>>]
Scalar(kind) == [kind |-> kind, n |-> 0, members |-> <<>>]
Object(members) == [kind |-> "object", n |-> 0, members |-> members]

\* keys that are array indices come first in Object.keys, in ascending
\* order; "0" is the one such key of the model
IsIndexKey(key) == key = "0"

\* Object.keys(data): index keys, then the other keys in insertion order
ObjectKeys(v) ==
    LET ms == [x \in DOMAIN v.members |-> v.members[x].key]
    IN  SelectSeq(ms, IsIndexKey) \o SelectSeq(ms, LAMBDA key : ~IsIndexKey(key))

\* data[key]: the value of the member, undefined when there is none
Get(v, key) ==
    IF \E x \in DOMAIN v.members : v.members[x].key = key
    THEN v.members[CHOOSE x \in DOMAIN v.members : v.members[x].key = key].value
    ELSE NoJson

\* Array.isArray(value)
IsArray(value) == value.kind = "array"

\* the first entry of keys whose value in data is an array, "" if none
FirstArrayKey(v, keys) ==
    LET hits == {x \in DOMAIN keys : IsArray(Get(v, keys[x]))}
    IN  IF hits = {} THEN ""
        ELSE keys[CHOOSE x \in hits : \A y \in hits : x <= y]

\* an extractor without the loop over possibleKeys
NoPriority(v, keys) == ""

\* for (const key of possibleKeys) if (Array.isArray(data[key])) return data[key]
PriorityKey(v, keys) == FirstArrayKey(v, keys)

Returned(value) == [threw |-> "", value |-> value]
Threw(message) == [threw |-> message, value |-> NoJson]

\* extractArrayFromJSON(data, fileName) of the script whose list is keys
ExtractArrayFromJSON(v, keys) ==
    IF IsArray(v) THEN Returned(v)
    ELSE IF v.kind = "object"
    THEN IF PriorityKey(v, keys) # ""
         THEN Returned(Get(v, PriorityKey(v, keys)))
         ELSE IF FirstArrayKey(v, ObjectKeys(v)) # ""
         THEN Returned(Get(v, FirstArrayKey(v, ObjectKeys(v))))
         ELSE Threw("No array found in JSON file")
    ELSE Threw("Invalid JSON structure in file")

\* const data = extractArrayFromJSON(rawData, fileName)
ExtractArray ==
    /\ pc = "extract"
    /\ extracted' = ExtractArrayFromJSON(rawData, PossibleKeys)
    /\ pc' = "extracted"
    /\ UNCHANGED <<writerVars, fixVars, apiVars, pageVars, configVars, runVars,
                   toolVars, extractor, rawData>>

(* Inputs of extractArrayFromJSON *)

MemberKeys == {"data", "list", "records", "x", "0"}
Arrays == {Array(n) : n \in 1..MaxArrays}
Scalars == {Scalar(k) : k \in {"null", "number", "string", "boolean"}}
MemberValues == Arrays \cup {Scalar("number"), Scalar("null"), Object(<<>>)}
Members == [key : MemberKeys, value : MemberValues]

\* member lists of up to n members with distinct keys
RECURSIVE MemberLists(_)
MemberLists(n) ==
    IF n = 0 THEN {<<>>}
    ELSE LET shorter == MemberLists(n - 1)
         IN  shorter \cup
             {Append(l, m) : l \in {s \in shorter : Len(s) = n - 1},
                             m \in Members}

DistinctKeys(l) == \A x, y \in DOMAIN l : l[x].key = l[y].key => x = y

JsonValues ==
    Arrays \cup Scalars
    \cup {Object(l) : l \in {m \in MemberLists(MaxMembers) : DistinctKeys(m)}}

InitExtract ==
    /\ extractor \in {"v2", "v3"}
    /\ rawData \in JsonValues
    /\ extracted = NotExtracted
    /\ pc = "extract"
    /\ IdleWriter
    /\ coll = EmptyFcn
    /\ before = EmptyFcn
    /\ commits = <<>>
    /\ IdleFix
    /\ IdleApi
    /\ IdlePage
    /\ IdleConfig
    /\ IdleRun
    /\ IdleTools

NextExtract == ExtractArray

SpecExtract == InitExtract /\ [][NextExtract]_vars

----------------------------------------------------------------------------
(* Vocabulary of the writer's properties *)

Done == pc = "done"
NumRecords == Len(data)
NumChunks == (Len(data) + batchSize - 1) \div batchSize
ChunkOf(j) == ((j - 1) \div batchSize) + 1
RecordsOfChunk(c) == ((c - 1) * batchSize + 1)..Min(c * batchSize, Len(data))
AllCommitsOk == \A x \in DOMAIN commits : commits[x].ok
QueuedAnywhere == UNION {commits[x].queued : x \in DOMAIN commits}
Applied(j) == \E x \in DOMAIN commits : commits[x].ok /\ j \in commits[x].queued
DeclaredIds == {DocIdOf(j) : j \in 1..Len(data)} \ {NoId}

\* key -> index of the last record of lo..hi that declares this key
RECURSIVE LastWrite(_, _)
LastWrite(lo, hi) ==
    IF lo > hi THEN EmptyFcn
    ELSE IF lo = hi
         THEN IF DocIdOf(lo) = NoId THEN EmptyFcn ELSE (DocIdOf(lo) :> lo)
    ELSE LastWrite(((lo + hi) \div 2) + 1, hi) @@ LastWrite(lo, (lo + hi) \div 2)

\* <<key, field>> -> index of the last applied record of lo..hi that declares
\* this key and carries this field
RECURSIVE LastCarrier(_, _)
LastCarrier(lo, hi) ==
    IF lo > hi THEN EmptyFcn
    ELSE IF lo = hi
         THEN IF DocIdOf(lo) = NoId \/ ~Applied(lo) THEN EmptyFcn
              ELSE [kf \in {<<DocIdOf(lo), f>> : f \in DOMAIN DocDataOf(lo)} |-> lo]
    ELSE LastCarrier(((lo + hi) \div 2) + 1, hi) @@ LastCarrier(lo, (lo + hi) \div 2)

----------------------------------------------------------------------------
(* C1: in update mode every document present when the call starts keeps    *)
(* exactly the content it had, whatever the key scan and the commits       *)
(* return.  Refuted: when getExistingDocIds throws it returns an empty     *)
(* Set, nothing is skipped and existing documents are replaced.            *)
C1_UpdateKeepsExisting ==
    mode = "update" =>
        \A k \in DOMAIN before : k \in DOMAIN coll /\ coll[k] = before[k]

(* C2: in update mode skippedCount is incremented exactly once per         *)
(* pre-existing key that occurs among the incoming records, and no         *)
(* incoming record whose key is already present is added to any commit.    *)
(* Refuted by the same failed scan (and the count is per record).          *)
C2_SkippedOncePerExistingKey ==
    mode = "update" =>
        /\ \A j \in QueuedAnywhere : DocIdOf(j) \notin DOMAIN before
        /\ Done => skippedCount = Cardinality(DeclaredIds \cap DOMAIN before)

C7_ChunkAllOrNothing ==
    [][Len(commits') = Len(commits) + 1 =>
          LET c == commits'[Len(commits')]
          IN  IF c.ok
              THEN /\ successCount' = successCount + c.ops
                   /\ errorCount' = errorCount
                   /\ \A j \in c.queued : DocRefOf(j) \in DOMAIN coll'
              ELSE /\ coll' = coll
                   /\ errorCount' = errorCount + c.ops
                   /\ successCount' = successCount]_vars

----------------------------------------------------------------------------
(* C8: no batch committed by any script carries more than 500 operations,  *)
(* whatever the number of records or documents processed.  Refuted by      *)
(* fixPromptDetails, which queues one batch.set per nested document of the *)
(* collection into a single batch and one delete per old document into a   *)
(* single deleteBatch.                                                     *)
C8_NoBatchOver500 ==
    \A x \in DOMAIN commits : commits[x].ops <= MaxBatchOps

----------------------------------------------------------------------------
(* Vocabulary of the Read API's properties *)

Sent == pc = "sent"
ProtectedPaths == {"/getCategory", "/getCategoryList", "/getPromptDetails"}
ProtectedRoutes == {"getCategory", "getCategoryList", "getPromptDetails"}
KeyMatches == req.key = ExpectedKey
\* the request is neither answered by cors nor refused by express.json
ReachesKeyCheck == req.method # "OPTIONS" /\ req.body = "ok"

(* C9 as stated: for each of /getCategory, /getCategoryList and            *)
(* /getPromptDetails a request whose x-api-key header is absent or differs *)
(* from the secret is answered with 403 and {success:false, message}, and  *)
(* neither the route handler nor any database or storage call runs for it; *)
(* with a matching key the request reaches its handler.  Refuted: cors and *)
(* express.json run before verifyAPIKey and answer some requests first.    *)
C9_KeyGuardsRoutes ==
    (Sent /\ req.path \in ProtectedPaths) =>
        IF KeyMatches
        THEN RouteOf(req) \in ProtectedRoutes => handler = RouteOf(req)
        ELSE res = Forbidden /\ handler = "none" /\ backendCalls = 0

(* C9 amended: for each of GET /getCategory, POST /getCategoryList and     *)
(* POST /getPromptDetails, no route handler and no database or storage     *)
(* call ever runs for a request whose x-api-key header is absent or        *)
(* differs from the secret; such a request is answered with 403 and        *)
(* {success:false, message} when it gets past cors and express.json, which *)
(* answer an OPTIONS preflight with 204 and a body that cannot be parsed   *)
(* or is too long with 400 or 413 before the key is looked at; a request   *)
(* with the matching key that gets past them reaches its handler.          *)
C9_KeyGuardsParsedRequests ==
    (req # NoRequest /\ req.path \in ProtectedPaths) =>
        /\ ~KeyMatches => handler = "none" /\ backendCalls = 0
        /\ (Sent /\ ~KeyMatches) =>
              res = CASE req.method = "OPTIONS" -> Preflight
                      [] req.body = "malformed" -> ParseError(400)
                      [] req.body = "tooLarge" -> ParseError(413)
                      [] OTHER -> Forbidden
        /\ (Sent /\ KeyMatches /\ ReachesKeyCheck /\ RouteOf(req) \in ProtectedRoutes) =>
              handler = RouteOf(req) /\ res.status # 403

C9_Witness ==
    /\ Sent /\ RouteOf(req) = "getPromptDetails" /\ req.key = "wrong"
    /\ req.body = "ok" /\ req.id = "known"
    /\ res = Forbidden /\ handler = "none" /\ backendCalls = 0

----------------------------------------------------------------------------
(* Vocabulary of the pagination's properties *)

Answered == pc = "sent" /\ res.status = 200
HasDigit(raw) == raw.given /\ \E x \in DOMAIN raw.text : IsDigit(raw.text[x])
\* missing, or a string without any digit ("", "a", "-", " a", ...)
NotANumber(raw) == ~HasDigit(raw)

(* C11: for every value of the page and limit query parameters (missing,   *)
(* non-numeric, zero, negative, huge) the page and limit used and echoed   *)
(* in the response satisfy 1 <= limit <= 100 and page >= 1; a missing or   *)
(* non-numeric limit becomes 10 and a missing or non-numeric page 1,       *)
(* limit=-5 becomes 1 and limit=1000 becomes 100.  Refuted by a page of    *)
(* more than 309 digits: parseInt gives Infinity, Math.max keeps it and    *)
(* the response echoes "page": null.                                       *)
C11_PageLimitClamped ==
    Answered =>
        /\ paged.limit \in 1..100 /\ paged.page >= 1
        /\ ~res.limit.null /\ res.limit.n = paged.limit
        /\ ~res.page.null /\ res.page.n = paged.page
        /\ NotANumber(query.limit) => paged.limit = 10
        /\ NotANumber(query.page) => paged.page = 1
        /\ query.limit = Given(<<"-", "5">>) => paged.limit = 1
        /\ query.limit = Given(<<"1", "0", "0", "0">>) => paged.limit = 100

----------------------------------------------------------------------------
(* C13: an authenticated /getPromptDetails request whose _id is a          *)
(* non-empty string that matches no prompt detail is always answered with  *)
(* 404 and {success:false, message}, never with 500, in the Firestore      *)
(* handler and in the storage handlers.  Refuted: the Firestore handler    *)
(* answers 500 when doc(_id) or get() throws, the config handler when      *)
(* getConfig throws.                                                       *)
C13_UnknownIdIs404 ==
    (Sent /\ handler = "getPromptDetails" /\ req.id \in {"unknown", "badpath"}) =>
        res.status = 404 /\ ~res.success /\ res.body = "json"

----------------------------------------------------------------------------
(* Vocabulary of getConfig's properties *)

\* call c found a configuration cached and less than a window had elapsed
\* since the fetch that the cache records
WithinWindow(c) ==
    c.cacheAtCall # NoConfig /\ c.now - c.lastAtCall < CONFIG_CACHE_TTL

C15_StaleOnRefreshFailure ==
    [][\A x \in DOMAIN calls :
          (calls[x].state = "fetching" /\ calls'[x].state # "fetching"
              /\ ~calls'[x].stored) =>
             /\ configCache' = configCache
             /\ configLastFetched' = configLastFetched
             /\ IF configCache # NoConfig
                THEN calls'[x].state = "returned" /\ calls'[x].value = configCache
                ELSE calls'[x].state = "threw" /\ calls'[x].status = 500]_vars

C15_Witness ==
    /\ Len(calls) = 2
    /\ calls[1].stored
    /\ calls[2].read /\ ~calls[2].stored /\ calls[2].state = "returned"
    /\ calls[2].value = calls[1].value /\ blob \in BadBlobs
    /\ configCache = calls[1].value /\ configLastFetched = calls[1].now

----------------------------------------------------------------------------
(* Vocabulary of the properties of a migration run *)

Steps == 1..Len(trace)
IsCommit(k, collName) == trace[k].coll = collName /\ trace[k].ev \in {"start", "end"}
StartsOf(collName) == {k \in Steps : trace[k].ev = "start" /\ trace[k].coll = collName}
EndsOf(collName) == {k \in Steps : trace[k].ev = "end" /\ trace[k].coll = collName}
MappingSteps == {k \in Steps : trace[k].ev = "mapping"}

\* at step m every commit of the collection so far has settled, and no
\* commit of the collection follows
SettledBefore(collName, m) ==
    /\ \A k \in Steps : IsCommit(k, collName) => k < m
    /\ Cardinality({k \in StartsOf(collName) : k < m})
          = Cardinality({k \in EndsOf(collName) : k < m})

\* main has passed the lines that decide on buildCategoryMapping
PastMapping ==
    /\ storage # NoStorage
    /\ at \in {"prompts", "prompts.write", "promptDetails",
               "promptDetails.write", "done"}

AtMostOneInFlight ==
    /\ Cardinality(inFlight) <= 1
    /\ \A k \in Steps :
          trace[k].ev = "start" =>
             Cardinality({j \in 1..(k - 1) : trace[j].ev = "start"})
                = Cardinality({j \in 1..(k - 1) : trace[j].ev = "end"})

PromptsSettledBeforeDetails ==
    \A k \in StartsOf("promptDetails") : SettledBefore("prompts", k)

PromptChunks ==
    {x \in inFlight \cup {todo[k] : k \in DOMAIN todo} : x.coll = "prompts"}

\* the keys of the category documents whose name is exactly n
ExactIds(n) == {k \in DOMAIN db.categories : NameOf(db.categories[k]) = n}

\* the mapping is the one a successful read of the collection gives
MappingIsOfCollection ==
    categoryMapping = Mapping(AddNames(EmptyFcn, SnapshotDocs, 1))

StampOf(doc) == IF "categoryId" \in DOMAIN doc THEN doc.categoryId ELSE NoId

(* C17: when the mapping was built from the category documents and some    *)
(* category document's name equals the <Name> of prompts_<Name>.json       *)
(* exactly, every record emitted for that file carries the ID of a         *)
(* category so named, whatever other categories differ from <Name> in      *)
(* letter case only.                                                       *)
C17_ExactMatchFirst ==
    \A c \in PromptChunks : \A j \in DOMAIN c.ops :
        LET doc == c.ops[j].doc
        IN  (MappingIsOfCollection /\ ExactIds(doc.from) # {})
               => StampOf(doc) \in ExactIds(doc.from)

\* the keys of the category documents whose name matches n, letter case
\* aside
MatchIds(n) ==
    {k \in DOMAIN db.categories :
        /\ NameOf(db.categories[k]) # NoName
        /\ Lower(NameOf(db.categories[k])) = Lower(n)}

(* C18: in every mode, while the categories collection holds a document    *)
(* whose name matches the <Name> of prompts_<Name>.json, every prompt      *)
(* record being written from that file carries the ID of such a document   *)
(* as categoryId; a record goes without categoryId only when no category   *)
(* document matches.                                                       *)
C18_MatchedPromptsLinked ==
    \A c \in inFlight : \A j \in DOMAIN c.ops :
        (c.coll = "prompts" /\ MatchIds(c.ops[j].doc.from) # {})
           => StampOf(c.ops[j].doc) \in MatchIds(c.ops[j].doc.from)

----------------------------------------------------------------------------
(* The runs of main in which every category and every prompt file is named *)
(* "Music": the order of the commits does not depend on the names.         *)

InitSequence ==
    /\ InitRun
    /\ \A f \in DOMAIN storage.categories :
          \A j \in DOMAIN storage.categories[f].list.tail :
             storage.categories[f].list.tail[j].name = "Music"
    /\ \A f \in DOMAIN storage.prompts : storage.prompts[f].name = "Music"

SpecSequence == InitSequence /\ [][NextRun]_vars

----------------------------------------------------------------------------
(* The two writers of promptDetails together: migratePromptDetails of a    *)
(* v2 run over detail files only, and fixPromptDetails.                    *)

InitDetails ==
    \/ /\ InitRun
       /\ script = "v2"
       /\ storage.categories = <<>>
       /\ storage.prompts = <<>>
       /\ storage.promptDetails # <<>>
    \/ InitFix

NextDetails == NextRun \/ NextFix

SpecDetails == InitDetails /\ [][NextDetails]_vars

\* the detail operations of the v2 run that are queued or in flight
DetailChunks ==
    {x \in inFlight \cup {todo[k] : k \in DOMAIN todo} : x.coll = "promptDetails"}

\* the element a wrapper document nests: data.data[0]
Nested(k) == before[k].data[1]

(* C19: every document that migratePromptDetails (v2) or fixPromptDetails  *)
(* writes to promptDetails is keyed by the _id of the record whose fields  *)
(* it stores, and a record without _id is written under no key at all.     *)
C19_DetailKeyedByOwnId ==
    /\ script = "v2" =>
          /\ \A c \in DetailChunks : \A j \in DOMAIN c.ops :
                c.ops[j].key # NoId /\ c.ops[j].doc.of = c.ops[j].key
          /\ \A k \in DOMAIN db.promptDetails :
                k # NoId /\ db.promptDetails[k].of = k
    /\ pc \in {"fixLoop", "fixDelete", "failed", "done"} =>
          /\ Len(batch) = Len(oldDocIds)
          /\ \A x \in DOMAIN batch :
                LET old == oldDocIds[x]
                IN  /\ IsNested(before[old])
                    /\ "_id" \in DOMAIN Nested(old)
                    /\ batch[x].key = Nested(old)._id
                    /\ batch[x].key # NoId
                    /\ batch[x].doc =
                          Stamped([f \in DOMAIN Nested(old) \ {"_id"} |-> Nested(old)[f]])
          /\ \A k \in DOMAIN coll :
                (k \notin DOMAIN before \/ coll[k] # before[k])
                   => \E x \in DOMAIN batch : batch[x].key = k /\ batch[x].doc = coll[k]

\* fixPromptDetails finished on a collection with a wrapper of a keyed
\* record stored under another key and a wrapper of a record without _id:
\* the first is now stored under its own _id, the second was left alone
C19_Witness ==
    /\ pc = "done"
    /\ script = "none"
    /\ \E k \in DOMAIN before :
          /\ IsNested(before[k])
          /\ RealPromptId(before[k]) \notin {NoId, k}
          /\ RealPromptId(before[k]) \in DOMAIN coll
          /\ k \notin DOMAIN coll
    /\ \E k \in DOMAIN before :
          /\ IsNested(before[k])
          /\ RealPromptId(before[k]) = NoId
          /\ k \in DOMAIN coll
          /\ coll[k] = before[k]

----------------------------------------------------------------------------
(* Vocabulary of the properties of extractArrayFromJSON *)

ArrayKeysOf(v) == {v.members[x].key : x \in {y \in DOMAIN v.members :
                                                IsArray(v.members[y].value)}}
InList(keys) == {keys[x] : x \in DOMAIN keys}

\* the members of the object in the opposite order
Reversed(v) ==
    Object([x \in DOMAIN v.members |-> v.members[Len(v.members) + 1 - x]])

\* the first key of the sequence keys that is in the set S
FirstIn(keys, S) ==
    keys[CHOOSE x \in DOMAIN keys :
            keys[x] \in S /\ \A y \in 1..(x - 1) : keys[y] \notin S]

(* C20: an array is returned as it is; of an object, the array under the   *)
(* first key of the priority list that holds an array, whatever the order  *)
(* of the object's keys, and if no listed key holds one the first          *)
(* array-valued property in the order of Object.keys; an object without an *)
(* array-valued property and a value that is neither array nor object      *)
(* raise an error; nothing but an array is ever returned.                  *)
C20_ExtractsByPriority ==
    pc = "extracted" =>
       /\ IsArray(rawData) => extracted = Returned(rawData)
       /\ (rawData.kind = "object"
             /\ ArrayKeysOf(rawData) \cap InList(PossibleKeys) # {}) =>
             /\ extracted = Returned(Get(rawData,
                               FirstIn(PossibleKeys, ArrayKeysOf(rawData))))
             /\ ExtractArrayFromJSON(Reversed(rawData), PossibleKeys) = extracted
       /\ (rawData.kind = "object"
             /\ ArrayKeysOf(rawData) # {}
             /\ ArrayKeysOf(rawData) \cap InList(PossibleKeys) = {}) =>
             extracted = Returned(Get(rawData,
                            FirstIn(ObjectKeys(rawData), ArrayKeysOf(rawData))))
       /\ (rawData.kind = "object" /\ ArrayKeysOf(rawData) = {}) =>
             extracted = Threw("No array found in JSON file")
       /\ rawData.kind \notin {"array", "object"} =>
             extracted = Threw("Invalid JSON structure in file")
       /\ extracted.threw = "" => IsArray(extracted.value)
       /\ extracted.threw # "" => extracted.value = NoJson

\* an object whose first member holds an array under an unlisted key and
\* whose second holds another array under "list": the second was returned
C20_Witness ==
    /\ pc = "extracted"
    /\ rawData.kind = "object"
    /\ Len(rawData.members) = 2
    /\ rawData.members[1].key = "x"
    /\ IsArray(rawData.members[1].value)
    /\ rawData.members[2].key = "list"
    /\ IsArray(rawData.members[2].value)
    /\ rawData.members[1].value # rawData.members[2].value
    /\ extracted = Returned(rawData.members[2].value)

(***************************************************************************)
(* File discovery: listAndCategorizeFiles (v2), listFilesInStorage and     *)
(* categorizeFiles and extractCategoryName (v3).                           *)
(*                                                                         *)
(* A file name is a sequence of pieces, each a string; the name is their   *)
(* concatenation.  The pieces are chosen so that none of the strings the   *)
(* code searches for ("data/", ".json", "category", "pt_category",         *)
(* "prompts_", "promptdetails_") begins or ends inside a piece, so that    *)
(* endsWith, startsWith, includes and replace can be computed on pieces.   *)
(***************************************************************************)
MaxStem == 2       \* pieces between the folder and the extension
MaxFiles == 2      \* files the listing returns

DATA_FOLDER == <<"data/">>

\* String.prototype.toLowerCase, piece by piece
toLowerCase(s) ==
    [k \in 1..Len(s) |->
        CASE s[k] = "Prompts_" -> "prompts_"
          [] s[k] = "promptDetails_" -> "promptdetails_"
          [] s[k] = "Category" -> "category"
          [] s[k] = "PT_" -> "pt_"
          [] s[k] = "Music" -> "music"
          [] OTHER -> s[k]]

\* s.startsWith(p), s.endsWith(p), s.includes(p)
startsWith(s, p) == Len(p) <= Len(s) /\ SubSeq(s, 1, Len(p)) = p
endsWith(s, p) == Len(p) <= Len(s) /\ SubSeq(s, Len(s) - Len(p) + 1, Len(s)) = p
includes(s, p) == \E k \in 1..(Len(s) - Len(p) + 1) : SubSeq(s, k, k + Len(p) - 1) = p

Least(S) == CHOOSE k \in S : \A j \in S : k <= j

\* s.replace(p, ""): the first occurrence of p is removed, if there is one
replace(s, p) ==
    IF includes(s, p)
    THEN LET k == Least({j \in 1..(Len(s) - Len(p) + 1) : SubSeq(s, j, j + Len(p) - 1) = p})
         IN  SubSeq(s, 1, k - 1) \o SubSeq(s, k + Len(p), Len(s))
    ELSE s

\* files.filter(file => file.name.endsWith(".json"))
\*      .map(file => file.name.replace(DATA_FOLDER, ""))
jsonFiles(files) ==
    LET kept == SelectSeq(files, LAMBDA f : endsWith(f, <<".json">>))
    IN  [k \in 1..Len(kept) |-> replace(kept[k], DATA_FOLDER)]

\* the group one file is pushed to by the if / else if chain; "" when the
\* file is skipped with a warning
GroupOf(fileName) ==
    LET lowerName == toLowerCase(fileName)
    IN  IF includes(lowerName, <<"category">>) \/ startsWith(lowerName, <<"pt_", "category">>)
        THEN "categories"
        ELSE IF startsWith(lowerName, <<"prompts_">>)
        THEN "prompts"
        ELSE IF startsWith(lowerName, <<"promptdetails_">>)
        THEN "promptDetails"
        ELSE ""

\* fileNames.forEach(fileName => { ... push ... }); return categorized
categorizeFiles(names) ==
    [g \in {"categories", "prompts", "promptDetails"} |->
        SelectSeq(names, LAMBDA f : GroupOf(f) = g)]

\* fileName.match(/(?:prompts_|promptDetails_)(.+)\.json$/i): the leftmost
\* prefix that is followed by at least one character and the final ".json";
\* match[1], or null (here the empty name)
NoCategoryName == <<>>

extractCategoryName(fileName) ==
    LET lowerName == toLowerCase(fileName)
        at0 == {k \in 1..Len(fileName) :
                  /\ lowerName[k] \in {"prompts_", "promptdetails_"}
                  /\ k + 1 <= Len(fileName) - 1
                  /\ lowerName[Len(fileName)] = ".json"}
    IN  IF at0 = {} THEN NoCategoryName
        ELSE SubSeq(fileName, Least(at0) + 1, Len(fileName) - 1)

CategorizeFiles ==
    /\ pc = "files"
    /\ categorized' = categorizeFiles(jsonFiles(fileNames))
    /\ pc' = "categorized"
    /\ UNCHANGED <<writerVars, fixVars, apiVars, pageVars, configVars, runVars,
                   extractVars, fileNames, cleanVars, modeVars, rerunVars>>

\* ---- inputs ----
StemPieces == {"prompts_", "Prompts_", "promptDetails_", "PT_", "category", "Category", "Music"}
Extensions == {".json", ".txt"}

RECURSIVE SeqsUpTo(_, _)
SeqsUpTo(S, n) ==
    IF n = 0 THEN {<<>>}
    ELSE LET shorter == SeqsUpTo(S, n - 1)
         IN  shorter \cup {Append(s, x) : s \in shorter, x \in S}

\* what storage.getFiles({prefix: "data/"}) returns: names under the folder
StoredNames ==
    {DATA_FOLDER \o stem \o <<x>> : stem \in SeqsUpTo(StemPieces, MaxStem) \ {<<>>},
                                    x \in Extensions}

InitFiles ==
    /\ pc = "files"
    /\ fileNames \in SeqsUpTo(StoredNames, MaxFiles)
    /\ categorized = NoGroups
    /\ IdleClean
    /\ IdleMode
    /\ IdleRerun
    /\ IdleWriter
    /\ coll = EmptyFcn /\ before = EmptyFcn /\ commits = <<>>
    /\ IdleFix
    /\ IdleApi
    /\ IdlePage
    /\ IdleConfig
    /\ IdleRun
    /\ IdleExtract

NextFiles == CategorizeFiles

SpecFiles == InitFiles /\ [][NextFiles]_vars

(***************************************************************************)
(* C21  File classification follows the naming convention for every file   *)
(* name: after categorizeFiles, a listed file named prompts_<Name>.json    *)
(* is in the prompts group and extractCategoryName gives <Name>, a file    *)
(* named promptDetails_<Name>.json is in the promptDetails group, a .json  *)
(* file whose name contains "category" is in the categories group, and no  *)
(* file is in more than one group.                                         *)
(***************************************************************************)
Listed == {replace(fileNames[k], DATA_FOLDER) : k \in 1..Len(fileNames)}

InGroup(g, f) == \E k \in 1..Len(categorized[g]) : categorized[g][k] = f

NamedBy(f, prefix) ==
    /\ startsWith(f, <<prefix>>)
    /\ endsWith(f, <<".json">>)
    /\ Len(f) >= 3

NameIn(f) == SubSeq(f, 2, Len(f) - 1)

Collections == {"categories", "prompts", "promptDetails"}

AllCommitsSucceeded == \A k \in Steps : trace[k].ev = "end" => trace[k].ok

SomeCommit == \E k \in Steps : trace[k].ev = "end"

\* the keys under which the run writes the records of the files of a collection
SourceKeys(collName) ==
    UNION {{storage[collName][f].list.tail[j].id :
                j \in 1..Len(storage[collName][f].list.tail)} :
            f \in 1..Len(storage[collName])} \ {NoId}

C22_FreshReplacesAll ==
    (pc = "run" /\ at = "done" /\ runMode = "fresh" /\ SomeCommit /\ AllCommitsSucceeded) =>
        \A c \in Collections :
            \A key \in DOMAIN db[c] : key \in SourceKeys(c) \/ key >= AutoBase

\* the exit code of the script's process: process.exit(1) in main's catch,
\* 0 when main returns; -1 while the run goes on
ExitCode ==
    IF at = "exit1" THEN 1
    ELSE IF at = "done" THEN 0
    ELSE 0 - 1

(***************************************************************************)
(* C23  Every failure during a migration run is surfaced as exit code 1:   *)
(* a run ends with exit code 0 only when no blob was missing, no file      *)
(* lacked an array and no batch commit was rejected.  (A missing blob or   *)
(* a file without array ends the run at once, so the run that ends with    *)
(* code 0 is required to have had no rejected commit.)                     *)
(***************************************************************************)
C23_FailuresExitOne ==
    (pc = "run" /\ ExitCode = 0) => AllCommitsSucceeded

(***************************************************************************)
(* C24  Error responses withhold the internal error.  As stated: every     *)
(* response with an error status has the JSON body {success:false,         *)
(* message}, and a request whose database or storage call failed is        *)
(* answered with status 500 and a message fixed by its route, whatever     *)
(* the error was.                                                          *)
(***************************************************************************)
FailureMessage(h) ==
    CASE h = "getCategory" -> "Error fetching categories"
      [] h = "getCategoryList" -> "Error fetching category list"
      [] h = "getPromptDetails" -> "Error fetching prompt details"
      [] OTHER -> "none"

\* a failed backend call is answered by the route's fixed reply
FailureWithheld ==
    (pc = "sent" /\ logged # NoError) =>
        res = Reply(500, FALSE, FailureMessage(handler))

MaxCleanChunks == 2     \* full batches a collection can hold (plus one document)

CleanOrder == <<"categories", "prompts", "promptDetails">>

\* a counter that would count a full batch for every commit
AddBatchSize(total, snap) == total + batchSize

\* totalDeleted += snapshot.size
AddSize(total, snap) == total + Len(snap)

\* db.collection(collectionName).limit(batchSize).get(): the first 500
\* documents in key order
LimitDocs(docs) == SubSeq(docs, 1, Min(batchSize, Len(docs)))

\* batch.delete(doc.ref) for every document of the snapshot, committed
DeleteSnapshot(docs, snap) ==
    LET gone == {snap[k] : k \in 1..Len(snap)}
    IN  SelectSeq(docs, LAMBDA key : key \notin gone)

\* const snapshot = await ...get(); if (snapshot.empty) break; ... return
\* totalDeleted - and main goes on to the next collection, or ends
CleanGet ==
    /\ pc = "clean.get"
    /\ \E ok \in BOOLEAN :
          IF ~ok
          THEN /\ pc' = "cleanFailed"
               /\ UNCHANGED <<snapshotDocs, totalDeleted, results, target>>
          ELSE LET docs == LimitDocs(firestore[CleanOrder[target]])
               IN  /\ snapshotDocs' = docs
                   /\ IF docs = <<>>
                      THEN /\ results' = [results EXCEPT ![CleanOrder[target]] = totalDeleted]
                           /\ totalDeleted' = 0
                           /\ IF target < Len(CleanOrder)
                              THEN target' = target + 1 /\ pc' = "clean.get"
                              ELSE UNCHANGED target /\ pc' = "cleaned"
                      ELSE /\ pc' = "clean.commit"
                           /\ UNCHANGED <<results, totalDeleted, target>>
    /\ UNCHANGED <<firestore, atStart, interfered>>
    /\ UNCHANGED <<writerVars, fixVars, apiVars, pageVars, configVars, runVars,
                   extractVars, fileVars, modeVars, rerunVars>>

\* await batch.commit(); totalDeleted += snapshot.size; a rejected commit
\* throws through deleteCollection to main's catch
CleanCommit ==
    /\ pc = "clean.commit"
    /\ \E ok \in BOOLEAN :
          IF ~ok
          THEN /\ pc' = "cleanFailed"
               /\ UNCHANGED <<firestore, totalDeleted>>
          ELSE /\ firestore' = [firestore EXCEPT ![CleanOrder[target]] =
                                   DeleteSnapshot(@, snapshotDocs)]
               /\ totalDeleted' = AddSize(totalDeleted, snapshotDocs)
               /\ pc' = "clean.get"
    /\ UNCHANGED <<atStart, target, snapshotDocs, results, interfered>>
    /\ UNCHANGED <<writerVars, fixVars, apiVars, pageVars, configVars, runVars,
                   extractVars, fileVars, modeVars, rerunVars>>

\* another client adds a document, keyed before all others, to a collection
OtherWriter ==
    /\ pc \in {"clean.get", "clean.commit"}
    /\ ~interfered
    /\ \E c \in {"categories", "prompts", "promptDetails"} :
          firestore' = [firestore EXCEPT ![c] = <<0>> \o @]
    /\ interfered' = TRUE
    /\ UNCHANGED <<atStart, target, snapshotDocs, totalDeleted, results>>
    /\ UNCHANGED <<writerVars, fixVars, apiVars, pageVars, configVars, runVars,
                   extractVars, fileVars, modeVars, rerunVars, pc>>

\* ---- inputs ----
\* an empty collection, one document, full batches, full batches and one more
CleanSizes == {0, 1, MaxCleanChunks * batchSize, MaxCleanChunks * batchSize + 1}

KeysUpTo(n) == [k \in 1..n |-> k]

InitCleanup ==
    /\ pc = "clean.get"
    /\ \E a \in CleanSizes, b \in CleanSizes, c \in CleanSizes :
          firestore = [categories |-> KeysUpTo(a), prompts |-> KeysUpTo(b),
                       promptDetails |-> KeysUpTo(c)]
    /\ atStart = firestore
    /\ target = 1
    /\ snapshotDocs = <<>>
    /\ totalDeleted = 0
    /\ results = NoResults
    /\ interfered = FALSE
    /\ IdleFiles
    /\ IdleMode
    /\ IdleRerun
    /\ IdleWriter
    /\ coll = EmptyFcn /\ before = EmptyFcn /\ commits = <<>>
    /\ IdleFix
    /\ IdleApi
    /\ IdlePage
    /\ IdleConfig
    /\ IdleRun
    /\ IdleExtract

NextCleanup == CleanGet \/ CleanCommit \/ OtherWriter

\* the script's own steps are always taken in the end: every await settles
SpecCleanup == InitCleanup /\ [][NextCleanup]_vars /\ WF_vars(CleanGet \/ CleanCommit)

(***************************************************************************)
(* C25  The cleanup wipes each collection entirely: with no other writer,  *)
(* every deleteCollection call that returns leaves its collection empty    *)
(* and returns the number of documents the collection held at the start;   *)
(* the collections are wiped in the order categories, prompts,             *)
(* promptDetails (a collection is untouched until the ones before it have  *)
(* been wiped); and the script always comes to an end: it returns, or a    *)
(* rejected read or commit ends it.                                        *)
(***************************************************************************)
HasReturned(k) == results[CleanOrder[k]] >= 0

WipedInOrder ==
    ~interfered =>
        \A k \in 1..3 :
            /\ HasReturned(k) => /\ firestore[CleanOrder[k]] = <<>>
                               /\ results[CleanOrder[k]] = Len(atStart[CleanOrder[k]])
                               /\ \A j \in 1..(k - 1) : HasReturned(j)
            /\ (k > target) => firestore[CleanOrder[k]] = atStart[CleanOrder[k]]
            /\ (pc = "cleaned") => HasReturned(k)

CleanupEnds == pc \in {"cleaned", "cleanFailed"}

C25_WipesEachCollection == []WipedInOrder /\ <>CleanupEnds

C25_Witness ==
    /\ pc = "cleaned"
    /\ ~interfered
    /\ results = [categories |-> MaxCleanChunks * batchSize + 1, prompts |-> 1,
                  promptDetails |-> MaxCleanChunks * batchSize]
    /\ firestore = NoGroups

(***************************************************************************)
(* determineMigrationMode of the v3 script (migrate-to-firestore.js:392):  *)
(* the mode argument, or the mode detected from the three collections.     *)
(***************************************************************************)
MaxDocs == 2       \* documents a collection holds when the mode is detected

\* const MIGRATION_MODE = args[0] || "auto"
MIGRATION_MODE(arg) == IF arg \in {NoArg, ""} THEN "auto" ELSE arg

\* hasExistingData: try { limit(1).get(); return !snapshot.empty }
\*                  catch { return false }
hasExistingData(docs, ok) == IF ok THEN SubSeq(docs, 1, Min(1, Len(docs))) # <<>> ELSE FALSE

determineMigrationMode(arg, store, oks) ==
    IF MIGRATION_MODE(arg) # "auto" THEN MIGRATION_MODE(arg)
    ELSE LET hasCategories == hasExistingData(store.categories, oks[1])
             hasPrompts == hasExistingData(store.prompts, oks[2])
             hasDetails == hasExistingData(store.promptDetails, oks[3])
         IN  IF hasCategories \/ hasPrompts \/ hasDetails THEN "update" ELSE "fresh"

\* const mode = await determineMigrationMode(); each read may be rejected
DetermineMode ==
    /\ pc = "mode"
    /\ \E oks \in [1..3 -> BOOLEAN] :
          /\ reads' = IF MIGRATION_MODE(argv) = "auto" THEN oks ELSE <<>>
          /\ migrationMode' = determineMigrationMode(argv, firestore, oks)
    /\ pc' = "moded"
    /\ UNCHANGED <<writerVars, fixVars, apiVars, pageVars, configVars, runVars,
                   extractVars, fileVars, cleanVars, rerunVars, argv>>

\* ---- inputs ----
ModeArgs == {NoArg, "", "auto", "fresh", "update", "force", "sync"}

InitMode ==
    /\ pc = "mode"
    /\ argv \in ModeArgs
    /\ reads = <<>>
    /\ migrationMode = "none"
    /\ \E a \in 0..MaxDocs, b \in 0..MaxDocs, c \in 0..MaxDocs :
          firestore = [categories |-> KeysUpTo(a), prompts |-> KeysUpTo(b),
                       promptDetails |-> KeysUpTo(c)]
    /\ atStart = firestore
    /\ target = 0
    /\ snapshotDocs = <<>>
    /\ totalDeleted = 0
    /\ results = NoResults
    /\ interfered = FALSE
    /\ IdleFiles
    /\ IdleRerun
    /\ IdleWriter
    /\ coll = EmptyFcn /\ before = EmptyFcn /\ commits = <<>>
    /\ IdleFix
    /\ IdleApi
    /\ IdlePage
    /\ IdleConfig
    /\ IdleRun
    /\ IdleExtract

NextMode == DetermineMode

SpecMode == InitMode /\ [][NextMode]_vars

(***************************************************************************)
(* C26  With no mode argument, determineMigrationMode selects update       *)
(* whenever at least one of the collections categories, prompts and        *)
(* promptDetails holds a document and fresh only when all three are        *)
(* empty; an explicit mode argument is returned unchanged.                 *)
(***************************************************************************)
SomeDocument == \E c \in Collections : firestore[c] # <<>>

C26_AutoDetectsData ==
    pc = "moded" =>
        IF argv = NoArg
        THEN migrationMode = IF SomeDocument THEN "update" ELSE "fresh"
        ELSE migrationMode = argv

(***************************************************************************)
(* C27  In every variant of batchWriteToFirestore, for every input list,   *)
(* mode and pattern of commit failures, the returned counters are all      *)
(* non-negative and successCount + skippedCount + errorCount equals the    *)
(* number of records passed in.                                            *)
(***************************************************************************)
C27_CountersPartitionInput ==
    Done =>
        /\ successCount >= 0
        /\ skippedCount >= 0
        /\ errorCount >= 0
        /\ successCount + skippedCount + errorCount = Len(data)

(***************************************************************************)
(* C28  fixPromptDetails loses no prompt detail: when it returns           *)
(* normally, for every wrapper document that had a nested data array       *)
(* whose first element has an _id p, a promptDetails document keyed p      *)
(* holding that element's fields exists (also when p is the key of a       *)
(* wrapper the script deletes), the wrapper is gone unless its key is p,   *)
(* and fixedCount + skippedCount equals the number of documents scanned.   *)
(***************************************************************************)
FixReturned == pc = "done" /\ variant = "none" /\ pos = Len(snapshot)

WrappersWithId ==
    {k \in DOMAIN before : IsNested(before[k]) /\ RealPromptId(before[k]) # NoId}

C28_FixLosesNoDetail ==
    FixReturned =>
        /\ \A k \in WrappersWithId :
              LET p == RealPromptId(before[k])
              IN  /\ p \in DOMAIN coll
                  /\ coll[p] = Stamped(CleanData(before[k]))
                  /\ (k # p) => k \notin DOMAIN coll
        /\ fixedCount + fixSkipped = Len(snapshot)

(***************************************************************************)
(* C29  Under every interleaving of concurrent getConfig invocations,      *)
(* configLastFetched never decreases and, once all invocations have        *)
(* completed (their reads having succeeded), configCache holds the         *)
(* configuration returned by the read that was issued last.                *)
(***************************************************************************)
ReadCalls == {x \in DOMAIN calls : calls[x].read}

AllCompleted == \A x \in DOMAIN calls : calls[x].state # "fetching"

LastIssuedRead == CHOOSE x \in ReadCalls : \A y \in ReadCalls : y <= x

LastReadWins ==
    (AllCompleted /\ ReadCalls # {} /\ \A x \in ReadCalls : calls[x].stored) =>
        configCache = calls[LastIssuedRead].value

C29_LastIssuedReadWins ==
    /\ [][configLastFetched' >= configLastFetched]_vars
    /\ []LastReadWins

(***************************************************************************)
(* Two runs of a migration script, one after the other: the second process *)
(* is started with the same script, mode and files once the first has      *)
(* ended normally; nobody else writes to the database.                     *)
(***************************************************************************)

\* node migrate-to-firestore-v2.js update, a second time: main starts again
Rerun ==
    /\ at = "done"
    /\ runNo = 0
    /\ runNo' = 1
    /\ dbAfterFirst' = db
    /\ firstTrace' = trace
    /\ trace' = <<>>
    /\ at' = "start"
    /\ fileIx' = 0
    /\ todo' = <<>>
    /\ categoriesResult' = NoResult
    /\ categoryMapping' = NoMapping
    /\ UNCHANGED <<script, runMode, storage, db, inFlight>>
    /\ UNCHANGED <<writerVars, fixVars, apiVars, pageVars, configVars, extractVars,
                   fileVars, cleanVars, modeVars, pc>>

InitRerun ==
    /\ InitSequence
    /\ runMode = "update"

NextRerun == NextRun \/ Rerun

SpecRerun == InitRerun /\ [][NextRerun]_vars

(***************************************************************************)
(* C30  Re-running the migration in update mode is idempotent: the second  *)
(* of two update runs over the same files leaves every collection as the   *)
(* first run left it; it issues no commit when the first run had no failed *)
(* chunk; after a first run with failed chunks it commits once for each    *)
(* failed chunk, to the collection of that chunk.                          *)
(***************************************************************************)
FailedChunks(t, collName) ==
    Cardinality({k \in 1..Len(t) : t[k].ev = "end" /\ t[k].coll = collName /\ ~t[k].ok})

SecondRunEnded == pc = "run" /\ runNo = 1 /\ at = "done"

C30_UpdateRerunIdempotent ==
    SecondRunEnded =>
        /\ (\A c \in Collections : FailedChunks(firstTrace, c) = 0) =>
              /\ db = dbAfterFirst
              /\ \A c \in Collections : StartsOf(c) = {}
        /\ \A c \in Collections :
              Cardinality(StartsOf(c)) = FailedChunks(firstTrace, c)
====
